---------------------------- MODULE Spec2Model ----------------------------
(***************************************************************************)
(* Model of the RQM import engine of robotframework-robotlog2rqm:          *)
(*   src/RobotLog2RQM/robotlog2rqm.py, src/RobotLog2RQM/CRQM.py            *)
(*   src/RobotResults2RQM/robot2rqm.py, src/RobotResults2RQM/CRQM.py       *)
(*                                                                         *)
(* Encoding of Python values.                                              *)
(*  - A Python str is a sequence of tokens (each token an atomic piece of  *)
(*    text); '' is << >>; + is \o.  String operations (replace, isdigit,   *)
(*    join, regex search) are computed on the token sequence.              *)
(*  - None is the reserved one-token value None; a missing dict key /      *)
(*    missing XML node is the reserved value Absent.                       *)
(*  - A status code carries its Python type: PyInt("303") is the int 303,  *)
(*    PyStr("303") the str "303"; they are different values, as in Python. *)
(***************************************************************************)
EXTENDS Integers, Sequences, FiniteSets, TLC

VARIABLES
  args,            \* command line: variant, dryrun, createmissing, updatetestcase
  pc,              \* position of the run function ("api" under SpecClient)
  nLeft,           \* tests of the result tree not yet passed to process_test
  exitCode,        \* None while running, else the process exit code
  csrf,            \* self.headers['X-Jazz-CSRF-Prevent']
  projectID,       \* self.projectID
  conf,            \* self.testplan/build/configuration/createmissing/updatetestcase
  dBuildVersion,   \* self.dBuildVersion  (insertion-ordered dict: seq of <<key, value>>)
  dConfiguation,   \* self.dConfiguation
  dTeamAreas,      \* self.dTeamAreas     (set of team names with a URL)
  lTestcaseIDs,    \* self.lTestcaseIDs
  lTCERIDs,        \* self.lTCERIDs
  lTCResultIDs,    \* self.lTCResultIDs
  last,            \* what the last step did: requests issued, log lines, outcome
  sent,            \* kinds of requests issued since the client was constructed
  calls,           \* SpecClient: the API calls made so far, oldest first
  lStartTimes,     \* self.lStartTimes
  lEndTimes,       \* self.lEndTimes
  session          \* self.session: "none" before the client is constructed,
                   \* "open" from then on, "closed" after session.close()

vars == << args, pc, nLeft, exitCode, csrf, projectID, conf, dBuildVersion,
           dConfiguation, dTeamAreas, lTestcaseIDs, lTCERIDs, lTCResultIDs,
           last, sent, calls, lStartTimes, lEndTimes, session >>

-----------------------------------------------------------------------------
(* Bounds of the model *)

MaxTests == 2      \* tests in the result tree
MaxCalls == 2      \* API calls in a SpecClient behaviour

-----------------------------------------------------------------------------
(* Python values *)

None   == << "<None>" >>
Absent == << "<absent>" >>

PyInt(r) == [type |-> "int", repr |-> r]
PyStr(r) == [type |-> "str", repr |-> r]

PyBool(b) == IF b THEN << "<True>" >> ELSE << "<False>" >>

\* truth value of a Python object: None, '' and False are falsy
Truthy(x) == x # None /\ x # << >> /\ x # PyBool(FALSE)

\* sep.join(l)
RECURSIVE join(_, _)
join(sep, l) ==
  IF l = << >> THEN << >>
  ELSE IF Len(l) = 1 THEN l[1]
  ELSE l[1] \o << sep >> \o join(sep, Tail(l))

DigitTokens == {"1", "2", "7", "100", "200"}

\* str.isdigit(): non-empty and every character a digit
isdigit(s) == s # << >> /\ \A i \in 1..Len(s) : s[i] \in DigitTokens

\* str.replace(old, new): every non-overlapping occurrence, left to right
RECURSIVE replace(_, _, _)
replace(s, old, new) ==
  IF old = << >> \/ Len(s) < Len(old) THEN s
  ELSE IF SubSeq(s, 1, Len(old)) = old
       THEN new \o replace(SubSeq(s, Len(old) + 1, Len(s)), old, new)
       ELSE << s[1] >> \o replace(Tail(s), old, new)

\* x in list
InList(x, l) == \E i \in 1..Len(l) : l[i] = x

\* if x not in l: l.append(x)
AppendAlways(l, x) == Append(l, x)
AppendDropped(l, x) == l
AppendIfNotIn(l, x) == IF InList(x, l) THEN l ELSE Append(l, x)

NoDuplicates(l) == \A i, j \in 1..Len(l) : l[i] = l[j] => i = j

\* insertion-ordered dict as a sequence of <<key, value>>
DictKeys(d)   == [i \in 1..Len(d) |-> d[i][1]]
DictValues(d) == [i \in 1..Len(d) |-> d[i][2]]
DictHas(d, k) == \E i \in 1..Len(d) : d[i][1] = k
\* d[k] = v
DictSet(d, k, v) ==
  IF DictHas(d, k)
  THEN [i \in 1..Len(d) |-> IF d[i][1] = k THEN << k, v >> ELSE d[i]]
  ELSE Append(d, << k, v >>)
\* list.index(x): first position of x
ListIndex(l, x) == CHOOSE i \in 1..Len(l) : l[i] = x /\ \A j \in 1..(i - 1) : l[j] # x
\* dict.update(other)
RECURSIVE DictUpdate(_, _)
DictUpdate(d, other) ==
  IF other = << >> THEN d
  ELSE DictUpdate(DictSet(d, other[1][1], other[1][2]), Tail(other))

\* a str spelled out as a sequence of characters, and str.lower() on it
UpperCase == << "A", "B", "C", "D", "E", "F", "G", "H", "I", "J", "K", "L", "M", "N",
               "O", "P", "Q", "R", "S", "T", "U", "V", "W", "X", "Y", "Z" >>
LowerCase == << "a", "b", "c", "d", "e", "f", "g", "h", "i", "j", "k", "l", "m", "n",
               "o", "p", "q", "r", "s", "t", "u", "v", "w", "x", "y", "z" >>

ToLower ==
  [c \in {UpperCase[i] : i \in 1..Len(UpperCase)} |->
     LowerCase[CHOOSE i \in 1..Len(UpperCase) : UpperCase[i] = c]]

lowerChar(c) == IF c \in DOMAIN ToLower THEN ToLower[c] ELSE c

str_lower_Identity(s) == s

str_lower(s) == [i \in 1..Len(s) |-> lowerChar(s[i])]

-----------------------------------------------------------------------------
(* URLs *)

host == "https://rqm.example"
ServicePath == "/qm/service/com.ibm.rqm.integration.service.IIntegrationService/resources/"

\* CRQMClient.integrationURL
integrationURL_Swapped(pid, resourceType, id, forceinternalID) ==
  LET base == << host, ServicePath, pid, "/", resourceType >>
  IN  IF id # None
      THEN IF isdigit(id) /\ (~ forceinternalID)
           THEN base \o << "/" >> \o id
           ELSE base \o << "/urn:com.ibm.rqm:", resourceType, ":" >> \o id
      ELSE base

integrationURL_NoForce(pid, resourceType, id, forceinternalID) ==
  LET base == << host, ServicePath, pid, "/", resourceType >>
  IN  IF id # None
      THEN IF ~ isdigit(id)
           THEN base \o << "/" >> \o id
           ELSE base \o << "/urn:com.ibm.rqm:", resourceType, ":" >> \o id
      ELSE base

integrationURL(pid, resourceType, id, forceinternalID) ==
  LET base == << host, ServicePath, pid, "/", resourceType >>
  IN  IF id # None
      THEN IF (~ isdigit(id)) /\ (~ forceinternalID)
           THEN base \o << "/" >> \o id
           ELSE base \o << "/urn:com.ibm.rqm:", resourceType, ":" >> \o id
      ELSE base

\* the tail segment of a URL: what follows its last separator token
SeparatorTokens == {"/", ":", "/urn:com.ibm.rqm:", ServicePath}
RECURSIVE TailSegment(_)
TailSegment(url) ==
  IF url = << >> \/ url[Len(url)] \in SeparatorTokens THEN << >>
  ELSE TailSegment(SubSeq(url, 1, Len(url) - 1)) \o << url[Len(url)] >>

-----------------------------------------------------------------------------
(* The server: resource IDs, response bodies, responses *)

IdPool  == { << "1" >>, << "2" >> }       \* web IDs the server hands out
SlugID  == << "slug_A" >>                 \* a generated (non-numeric) ID
ProjectUUID  == "_uuid"                   \* project area UUID on the server
ProjectAlias == "My+Project"              \* urllib.parse.quote_plus(project)

\* text of an XML node: Absent (no such node), None (empty node), or its text
TagValues == {Absent, None} \cup IdPool

EmptyBody   == [kind |-> "empty",   resultId |-> Absent, webId |-> Absent]
GarbageBody == [kind |-> "garbage", resultId |-> Absent, webId |-> Absent]
XmlBody(r, w) == [kind |-> "xml", resultId |-> r, webId |-> w]

Bodies == {EmptyBody, GarbageBody}
            \cup {XmlBody(r, Absent) : r \in TagValues}
            \cup {XmlBody(Absent, w) : w \in TagValues}

\* HTTP reason phrase of a status
Reason(status) ==
  CASE status = PyInt("200") -> "OK"
    [] status = PyInt("201") -> "Created"
    [] status = PyInt("303") -> "See Other"
    [] OTHER                 -> "Internal Server Error"

ResourceTypes == {"testcase", "executionworkitem", "executionresult",
                  "buildrecord", "configuration"}

\* values of the Content-Location header the server may send for a resource type
ServerURN(resourceType, id) ==
  << host, ServicePath, ProjectUUID, "/", resourceType,
     "/urn:com.ibm.rqm:", resourceType, ":" >> \o id
ServerExt(resourceType, id) ==
  << host, ServicePath, ProjectUUID, "/", resourceType, "/" >> \o id

Locations(resourceType) ==
  {Absent, << >>, SlugID, ServerURN(resourceType, << >>), ServerExt(resourceType, SlugID)}
    \cup {ServerURN(resourceType, i) : i \in IdPool}

Response(status, text, loc) ==
  [status_code |-> status, reason |-> Reason(status), text |-> text,
   ContentLocation |-> loc]

\* answers to a POST on the collection of a resource type
\* (a response with a body carries no Content-Location; 303 and 201 without a
\* body carry any of the header values; an error status carries neither)
PostResponses(resourceType) ==
  {Response(s, b, Absent) : s \in {PyInt("200"), PyInt("201")}, b \in Bodies}
    \cup {Response(s, EmptyBody, l) : s \in {PyInt("201"), PyInt("303")},
                                      l \in Locations(resourceType)}
    \cup {Response(PyInt("303"), XmlBody(Absent, None), Absent),
          Response(PyInt("500"), EmptyBody, Absent),
          Response(PyInt("500"), GarbageBody, Absent)}

\* answers to a GET / PUT
GetResponses == {Response(PyInt("200"), b, Absent) : b \in Bodies}
                  \cup {Response(PyInt("500"), EmptyBody, Absent)}

NoResponse == Response(PyStr(""), EmptyBody, Absent)

\* the answers to a creation POST met during a run: created (an execution
\* result under either ID, the other resources under one), already existing
\* (303), refused; for a TCER also 200 with and without an ID, and a 303
\* whose location carries no ID or is missing
RunResponses(resourceType) ==
  {Response(PyInt("201"), XmlBody(i, Absent), Absent) :
     i \in IF resourceType = "executionresult" THEN IdPool ELSE {<< "1" >>}}
    \cup {Response(PyInt("303"), EmptyBody, ServerURN(resourceType, << "1" >>)),
          Response(PyInt("500"), EmptyBody, Absent)}
    \cup (IF resourceType = "executionworkitem"
          THEN {Response(PyInt("200"), EmptyBody, Absent),
                Response(PyInt("200"), XmlBody(Absent, << "1" >>), Absent),
                Response(PyInt("303"), EmptyBody, ServerURN(resourceType, << >>)),
                Response(PyInt("303"), EmptyBody, Absent)}
          ELSE {})

\* the answers to the creation POST of a build record or a test environment
\* met during a run
ConfigResponses(resourceType) ==
  {Response(PyInt("201"), XmlBody(<< "1" >>, Absent), Absent),
   Response(PyInt("201"), GarbageBody, Absent),
   Response(PyInt("303"), EmptyBody, ServerURN(resourceType, << "1" >>)),
   Response(PyInt("500"), EmptyBody, Absent)}

RunGetResponses ==
  {Response(PyInt("200"), XmlBody(Absent, << "1" >>), Absent),
   Response(PyInt("200"), GarbageBody, Absent),
   Response(PyInt("200"), EmptyBody, Absent),
   Response(PyInt("500"), EmptyBody, Absent)}

\* the answers to the PUT of a test case update: updated, refused
RunPutResponses ==
  {Response(PyInt("200"), EmptyBody, Absent),
   Response(PyInt("500"), EmptyBody, Absent)}

-----------------------------------------------------------------------------
(* Requests and call results *)

Req(method, resourceType, id) == [method |-> method, resourceType |-> resourceType, id |-> id]

ReqKind(r) == << r.method, r.resourceType >>

\* result of a call: ctl is "return", "raise" (an Exception propagates) or
\* "exit" (exit(1) was called: SystemExit passes every `except Exception`)
Result(ctl, val, reqs) == [ctl |-> ctl, val |-> val, reqs |-> reqs]

MsgJSessionMissing == "JSESSIONID is missing for RQM resource's creation"
MsgExtractFailed   == "Extract ID information from response failed. Reason: ..."

\* get_xml_tree on a response text: TRUE when it parses, else exit(1)
get_xml_tree(text) == text.kind = "xml"

\* CRQMClient.webIDfromResponse
webIDfromResponse(response, tagID) ==
  LET node == IF tagID = "rqm:resultId" THEN response.resultId ELSE response.webId
  IN  IF ~ get_xml_tree(response) THEN Result("exit", None, << >>)
      ELSE IF node = Absent THEN Result("raise", None, << >>)
      ELSE Result("return", node, << >>)

lSupportedResources == {"attachment", "executionresult", "executionscript",
                        "executionworkitem", "keyword", "remotescript",
                        "suiteexecutionrecord", "testcase", "testplan",
                        "testscript", "testsuite", "testsuitelog"}

\* CRQMClient.webIDfromGeneratedID
webIDfromGeneratedID(resourrceType, generateID, resResource) ==
  LET get == << Req("GET", resourrceType, generateID) >>
  IN  IF resourrceType \in lSupportedResources
      THEN IF resResource.status_code = PyInt("200")
           THEN IF ~ get_xml_tree(resResource.text) THEN Result("exit", generateID, get)
                ELSE IF resResource.text.webId # Absent
                     THEN Result("return", resResource.text.webId, get)
                     ELSE Result("return", generateID, get)
           ELSE Result("raise", generateID, get)
      ELSE Result("return", generateID, << >>)

\* returnObj['message'] = res.reason  (CRQM.py 1520)
WithReason_Dropped(returnObj, res) == returnObj

WithReason(returnObj, res) == [returnObj EXCEPT !.message = res.reason]

\* CRQMClient.createResource from the POST on (CRQM.py 1514-1551); res answers
\* the POST, resGet the GET of webIDfromGeneratedID (when one is made)
createResourcePosted(pid, resourceType, res, resGet) ==
  LET post == << Req("POST", resourceType, None) >>
      r1 == [success |-> FALSE, id |-> None, message |-> "",
             status_code |-> res.status_code]
      r2 == WithReason(r1, res)
      rX == [r1 EXCEPT !.message = MsgExtractFailed]
  IN
  IF res.status_code # PyInt("201")
  THEN IF res.status_code = PyInt("303")
       THEN IF res.ContentLocation = Absent
            THEN Result("raise", r2, post)              \* KeyError, not caught here
            ELSE LET sRemove == integrationURL(pid, resourceType, << >>, TRUE)
                 IN  Result("return",
                            [r2 EXCEPT !.id = replace(res.ContentLocation, sRemove, << >>)],
                            post)
       ELSE IF res.status_code = PyInt("200") /\ res.text.kind # "empty"
       THEN LET w == webIDfromResponse(res.text, "ns2:webId")
            IN  CASE w.ctl = "exit"  -> Result("exit", r2, post)
                  [] w.ctl = "raise" -> Result("return", [r2 EXCEPT !.message = MsgExtractFailed], post)
                  [] OTHER           -> Result("return", [r2 EXCEPT !.id = w.val], post)
       ELSE Result("return", r2, post)
  ELSE IF res.text.kind # "empty"
  THEN LET w == webIDfromResponse(res.text, "rqm:resultId")
       IN  CASE w.ctl = "exit"  -> Result("exit", r1, post)
             [] w.ctl = "raise" -> Result("return", rX, post)
             [] OTHER           -> Result("return", [r1 EXCEPT !.id = w.val, !.success = TRUE], post)
  ELSE IF res.ContentLocation = Absent
  THEN Result("return", rX, post)                       \* KeyError, caught
  ELSE IF res.ContentLocation # << >>
  THEN LET g == webIDfromGeneratedID(resourceType, res.ContentLocation, resGet)
       IN  CASE g.ctl = "exit"  -> Result("exit", [r1 EXCEPT !.id = res.ContentLocation], post \o g.reqs)
             [] g.ctl = "raise" -> Result("return", [rX EXCEPT !.id = res.ContentLocation], post \o g.reqs)
             [] OTHER           -> Result("return", [r1 EXCEPT !.id = g.val, !.success = TRUE], post \o g.reqs)
  ELSE Result("return", [r1 EXCEPT !.success = TRUE], post)

returnObjInit == [success |-> FALSE, id |-> None, message |-> "", status_code |-> PyStr("")]

\* CRQMClient.createResource
createResource_NoGuard(token, pid, resourceType, res, resGet) ==
  createResourcePosted(pid, resourceType, res, resGet)

createResource(token, pid, resourceType, res, resGet) ==
  IF token = << >>
  THEN Result("return", [returnObjInit EXCEPT !.message = MsgJSessionMissing], << >>)
  ELSE createResourcePosted(pid, resourceType, res, resGet)

\* TRUE when createResource consults the answer to the GET of webIDfromGeneratedID
NeedsGet(token, resourceType, res) ==
  /\ token # << >>
  /\ res.status_code = PyInt("201")
  /\ res.text.kind = "empty"
  /\ res.ContentLocation \notin {Absent, << >>}
  /\ resourceType \in lSupportedResources

\* the answers that matter to one createResource call
GetResponsesFor(token, resourceType, res) ==
  IF NeedsGet(token, resourceType, res) THEN GetResponses ELSE {NoResponse}

-----------------------------------------------------------------------------
(* Name -> ID caches: createBuildRecord / createConfiguration *)

BuildNames == { << "v1.0" >>, << "v2.0" >> }

\* the cache-hit branch of createBuildRecord / createConfiguration
CacheHit(d, name, msg) ==
  [returnObjInit EXCEPT !.id = DictKeys(d)[ListIndex(DictValues(d), name)],
                        !.status_code = PyStr("303"),
                        !.message = msg]

\* TRUE when the call goes to the network instead of the cache
CacheMiss_Always(d, name, forceCreate) == TRUE

CacheMiss(d, name, forceCreate) == (~ InList(name, DictValues(d))) \/ forceCreate

\* common body of createBuildRecord and createConfiguration: the result of the
\* call with the cache after it
CreateCached(resourceType, d, token, pid, name, forceCreate, res, msg) ==
  IF CacheMiss(d, name, forceCreate)
  THEN LET r == createResource(token, pid, resourceType, res, NoResponse)
       IN  [ctl |-> r.ctl, val |-> r.val, reqs |-> r.reqs,
            dict |-> IF r.ctl = "return" /\ r.val.success
                     THEN DictSet(d, r.val.id, name) ELSE d]
  ELSE [ctl |-> "return", val |-> CacheHit(d, name, msg), reqs |-> << >>, dict |-> d]

\* CRQMClient.createBuildRecord
createBuildRecord(d, token, pid, sBuildSWVersion, forceCreate, res) ==
  CreateCached("buildrecord", d, token, pid, sBuildSWVersion, forceCreate, res,
               "Build record is already existing.")

\* CRQMClient.createConfiguration
createConfiguration(d, token, pid, sConfigurationName, forceCreate, res) ==
  CreateCached("configuration", d, token, pid, sConfigurationName, forceCreate, res,
               "Test environment is already existing.")

-----------------------------------------------------------------------------
(* Observations *)

\* a robot timestamp 'YYYYMMDD HH:MM:SS.ffffff' as convert_to_datetime reads
\* it: the day (as the ordinal of the date), hour, minute, second and the
\* integer of the fraction digits
Timestamp(day, h, m, s, f) == [day |-> day, h |-> h, m |-> m, s |-> s, f |-> f]

NoTime == Timestamp(0, 0, 0, 0, 0)

NoTest == [tags |-> << >>, status |-> "", team |-> << >>,
           starttime |-> NoTime, endtime |-> NoTime]

\* no createResource outcome
NoOutcome == [success |-> FALSE, id |-> Absent, message |-> "",
              status_code |-> [type |-> "absent", repr |-> ""]]

\* what the last step did: the requests it sent, the lines it logged, the
\* server answers it met (res, resGet), the outcome of its last creation call
\* (out) and of its TCER creation call (tcer), the TCER and execution result
\* documents it handed to createResource (tpls), the test case links of the
\* test plan it fetched (plan) and of the one it PUT (body); for config, the
\* outcomes of its createBuildRecord and createConfiguration calls (res_build,
\* res_conf); for process_test, the answers to the GET and to the PUT of
\* its test case update (resTC, resPut); for a direct call of a function, its
\* arguments (arg) and the
\* value it returned (ret)
NoLast == [op |-> "", ctl |-> "return", reqs |-> << >>, logs |-> << >>,
           res |-> NoResponse, resGet |-> NoResponse, out |-> NoOutcome,
           tcer |-> NoOutcome, arg |-> << >>, test |-> NoTest, step |-> "",
           tcid |-> None, tpls |-> << >>, plan |-> << >>, body |-> << >>,
           ret |-> << >>, res_build |-> NoOutcome, res_conf |-> NoOutcome,
           resTC |-> NoResponse, resPut |-> NoResponse]

Kinds(reqs) == {ReqKind(reqs[i]) : i \in 1..Len(reqs)}

Posts(reqs) == Cardinality({i \in 1..Len(reqs) : reqs[i].method = "POST"})

ConfInit == [testplan |-> None, build |-> None, configuration |-> None,
             createmissing |-> None, updatetestcase |-> None, testsuite |-> None]

Token == << "JSESSIONID-1" >>

-----------------------------------------------------------------------------
(* Paginated listings: getAllByResource *)

Page(kind, entries) == [kind |-> kind, entries |-> entries]

Envelope(success, message, data) == [success |-> success, message |-> message, data |-> data]

\* the address of page n of a listing: the first page is the collection of the
\* resource type (no ID); the link to a later page ends in the resource type
\* followed by the page index, which getAllByResource hands to itself as the
\* resource type (CRQM.py 630-634)
PageTokens == << "1", "2", "3", "4" >>

PageRef(n) == IF n = 1 THEN None ELSE << "?page=", PageTokens[n] >>

\* CRQMClient.getAllByResource over the chain of pages the server serves, from
\* page n on: every page but the last carries a link to the next one.  A
\* "garbage" page does not parse (get_xml_tree exits); a "broken" page parses
\* and fails after its entries were read (an entry or link without the
\* expected node).
RECURSIVE getAllFromPage(_, _, _)
getAllFromPage(resourceType, pages, n) ==
  LET page == Head(pages)
      get  == << Req("GET", resourceType, PageRef(n)) >>
  IN  IF page.kind = "garbage"
      THEN Result("exit", Envelope(FALSE, "", << >>), get)
      ELSE IF page.kind = "broken"
      THEN Result("return", Envelope(FALSE, "error", page.entries), get)
      ELSE IF Len(pages) > 1
      THEN LET res == getAllFromPage(resourceType, Tail(pages), n + 1)
           IN  IF res.ctl = "exit"
               THEN Result("exit", Envelope(FALSE, "", page.entries), get \o res.reqs)
               ELSE IF res.val.success
               THEN Result("return",
                           Envelope(TRUE, "", DictUpdate(page.entries, res.val.data)),
                           get \o res.reqs)
               ELSE Result("return", Envelope(FALSE, "Get data failed", page.entries),
                           get \o res.reqs)
      ELSE Result("return", Envelope(TRUE, "", page.entries), get)

\* CRQMClient.getAllByResource(resourceType), called for the collection
getAllByResource_FirstPage(resourceType, pages) ==
  getAllFromPage(resourceType, << Head(pages) >>, 1)

getAllByResource(resourceType, pages) == getAllFromPage(resourceType, pages, 1)

-----------------------------------------------------------------------------
(* The parsed result tree: suites and their metadata *)

\* d[k] of a dict that has the key
DictGet(d, k) == d[ListIndex(DictKeys(d), k)][2]

\* a suite node: its name, its metadata (a dict), its child suites and the
\* names of its tests; suite.parent is handed along by the functions below
Suite(name, metadata, suites, tests) ==
  [name |-> name, metadata |-> metadata, suites |-> suites, tests |-> tests]

NoSuite == [name |-> "<None>"]       \* suite.parent of the top suite: None

\* the entries of DEFAULT_METADATA that the run function and process_test read
DEFAULT_METADATA ==
  << << "project", << "ROBFW" >> >>, << "version_sw", << >> >>,
     << "component", << "unknown" >> >>, << "team-area", << >> >> >>

\* process_metadata
RECURSIVE MetadataFrom(_, _, _)
MetadataFrom(keys, metadata, dMetadata) ==
  IF keys = << >> THEN dMetadata
  ELSE LET key == Head(keys)
       IN  MetadataFrom(Tail(keys), metadata,
             IF DictHas(metadata, key) /\ DictGet(metadata, key) # None
             THEN DictSet(dMetadata, key, DictGet(metadata, key))
             ELSE dMetadata)

process_metadata(metadata, default_metadata) ==
  MetadataFrom(DictKeys(default_metadata), metadata, default_metadata)

\* process_suite_metadata
RECURSIVE process_suite_metadata(_, _)
process_suite_metadata(suite, default_metadata) ==
  LET d1 == IF Len(suite.suites) > 0
            THEN process_suite_metadata(suite.suites[1], default_metadata)
            ELSE default_metadata
  IN  process_metadata(suite.metadata, d1)

\* `for key in suite.parent.metadata.keys(): if key not in suite.metadata:
\* suite.metadata[key] = suite.parent.metadata[key]` (robotlog2rqm.py 426-429)
RECURSIVE UpdateMissing(_, _)
UpdateMissing(metadata, parentMetadata) ==
  IF parentMetadata = << >> THEN metadata
  ELSE LET key == parentMetadata[1][1]
       IN  UpdateMissing(IF DictHas(metadata, key) THEN metadata
                         ELSE DictSet(metadata, key, parentMetadata[1][2]),
                         Tail(parentMetadata))

\* process_suite with Logger.dryrun set (process_test returns after its log
\* line): the suite as the call leaves it
RECURSIVE process_suite(_, _)
process_suite(suite, parent) ==
  IF Len(suite.suites) > 0
  THEN [suite EXCEPT !.suites =
          [i \in 1..Len(suite.suites) |-> process_suite(suite.suites[i], suite)]]
  ELSE IF parent # NoSuite /\ parent.metadata # << >>
  THEN [suite EXCEPT !.metadata = UpdateMissing(suite.metadata, parent.metadata)]
  ELSE suite

\* process_suite: the tests it hands to process_test, in the order of the
\* calls (robotlog2rqm.py 419-433): those of the child suites when the suite
\* has child suites, else the suite's own
RECURSIVE TestsProcessed(_)
TestsProcessed(suite) ==
  IF Len(suite.suites) > 0
  THEN LET RECURSIVE over(_)
           over(subsuites) ==
             IF subsuites = << >> THEN << >>
             ELSE TestsProcessed(Head(subsuites)) \o over(Tail(subsuites))
       IN  over(suite.suites)
  ELSE suite.tests

-----------------------------------------------------------------------------
(* The parsed result tree: tests *)

Test(tags, status, team, starttime, endtime) ==
  [tags |-> tags, status |-> status, team |-> team,
   starttime |-> starttime, endtime |-> endtime]

\* re.search(key + "(.+)", tag, re.I): the text after the first occurrence of
\* key that is followed by at least one character, or Absent
Lower(tok) == IF tok = "TCID-" THEN "tcid-" ELSE tok
RECURSIVE SearchTag(_, _)
SearchTag(tag, key) ==
  IF Len(tag) < 2 THEN Absent
  ELSE IF Lower(tag[1]) = key THEN Tail(tag)
  ELSE SearchTag(Tail(tag), key)

\* get_from_tags
RECURSIVE get_from_tags(_, _)
get_from_tags(lTags, key) ==
  IF lTags = << >> THEN << >>
  ELSE LET oMatch == SearchTag(Head(lTags), key)
       IN  (IF oMatch # Absent THEN << oMatch >> ELSE << >>)
             \o get_from_tags(Tail(lTags), key)

DRESULT_MAPPING_Lenient ==
  [s \in {"PASS", "FAIL", "UNKNOWN", "SKIP"} |->
     CASE s = "PASS" -> << "P", "a", "s", "s", "e", "d" >>
       [] s = "FAIL" -> << "F", "a", "i", "l", "e", "d" >>
       [] OTHER      -> << "I", "n", "c", "o", "n", "c", "l", "u", "s", "i", "v", "e" >>]

DRESULT_MAPPING ==
  [PASS    |-> << "P", "a", "s", "s", "e", "d" >>,
   FAIL    |-> << "F", "a", "i", "l", "e", "d" >>,
   UNKNOWN |-> << "I", "n", "c", "o", "n", "c", "l", "u", "s", "i", "v", "e" >>]

KnownTeam   == << "t", "e", "a", "m", "A" >>
UnknownTeam == << "t", "e", "a", "m", "X" >>

\* the tests met: one, several and no tcid tag, each status, a team that is
\* known and one that is not; the timestamps give durations of 5 s, of 4.2 s,
\* of 5 s over midnight, and of -0.5 s (the clock was set back)
TestPool ==
  { Test(<< << "tcid-", "100" >> >>, "PASS", << >>,
         Timestamp(1, 10, 0, 0, 0), Timestamp(1, 10, 0, 5, 0)),
    Test(<< << "smoke" >>, << "TCID-", "100" >>, << "tcid-", "200" >> >>, "FAIL", << >>,
         Timestamp(1, 10, 0, 0, 900000), Timestamp(1, 10, 0, 5, 100000)),
    Test(<< << "tcid-", "100" >> >>, "UNKNOWN", KnownTeam,
         Timestamp(1, 23, 59, 58, 0), Timestamp(2, 0, 0, 3, 0)),
    Test(<< << "smoke" >>, << "tcid-" >> >>, "PASS", << >>,
         Timestamp(1, 10, 0, 0, 0), Timestamp(1, 10, 0, 5, 0)),
    Test(<< << "tcid-", "100" >> >>, "SKIP", << >>,
         Timestamp(1, 10, 0, 0, 0), Timestamp(1, 10, 0, 5, 0)),
    Test(<< << "tcid-", "TC_A" >> >>, "FAIL", UnknownTeam,
         Timestamp(1, 10, 0, 5, 500000), Timestamp(1, 10, 0, 5, 0)) }

\* int((end - start).total_seconds()) of process_test: the whole seconds of
\* the difference, truncated toward zero
Seconds(t) == ((t.day * 24 + t.h) * 60 + t.m) * 60 + t.s
tc_duration(starttime, endtime) ==
  LET whole == Seconds(endtime) - Seconds(starttime)
      frac  == endtime.f - starttime.f
  IN  IF whole > 0 /\ frac < 0 THEN whole - 1
      ELSE IF whole < 0 /\ frac > 0 THEN whole + 1
      ELSE whole

-----------------------------------------------------------------------------
(* The documents posted for a test: TCER and execution result *)

RESULT_STATES ==
  << << "p", "a", "u", "s", "e", "d" >>,
     << "i", "n", "p", "r", "o", "g", "r", "e", "s", "s" >>,
     << "n", "o", "t", "r", "u", "n" >>,
     << "p", "a", "s", "s", "e", "d" >>,
     << "i", "n", "c", "o", "m", "p", "l", "e", "t", "e" >>,
     << "i", "n", "c", "o", "n", "c", "l", "u", "s", "i", "v", "e" >>,
     << "p", "a", "r", "t", "_", "b", "l", "o", "c", "k", "e", "d" >>,
     << "f", "a", "i", "l", "e", "d" >>,
     << "e", "r", "r", "o", "r" >>,
     << "b", "l", "o", "c", "k", "e", "d" >>,
     << "p", "e", "r", "m", "_", "f", "a", "i", "l", "e", "d" >>,
     << "d", "e", "f", "e", "r", "r", "e", "d" >> >>

prefixState == << "com.ibm.rqm.execution.common.state." >>

\* the text of the state node (CRQM.py 1130-1133)
StateText(resultState) ==
  IF InList(str_lower(resultState), RESULT_STATES)
  THEN prefixState \o str_lower(resultState)
  ELSE prefixState \o << "i", "n", "c", "o", "n", "c", "l", "u", "s", "i", "v", "e" >>

userID == << "tester1" >>      \* self.userID: the user given on the command line

\* CRQMClient.userURL
userURL(id) ==
  << host, "/jts/resource/itemName/com.ibm.team.repository.Contributor/" >> \o id

\* an owner node: its text (None for an empty node) and its resource attribute
OwnerNode(text, resource) == [text |-> text, resource |-> resource]

\* the owner node of the template files: empty
EmptyOwner == OwnerNode(None, << >>)

\* the owner branch of every create...Template (CRQM.py 860-865, 979-984,
\* 1138-1143, 1308-1313, 1432-1437)
SetOwner_Overwrite(oOwner, sOwnerID) ==
  IF Truthy(sOwnerID) THEN OwnerNode(sOwnerID, userURL(sOwnerID))
  ELSE OwnerNode(userID, userURL(userID))

SetOwner(oOwner, sOwnerID) ==
  IF Truthy(sOwnerID) THEN OwnerNode(sOwnerID, userURL(sOwnerID))
  ELSE IF oOwner.text = None \/ oOwner.text = << >>
  THEN OwnerNode(userID, userURL(userID))
  ELSE oOwner

\* CRQMClient.createTCERTemplate: the nodes that carry IDs, and the owner
createTCERTemplate(pid, oOwner, testcaseID, testplanID, sOwnerID) ==
  [resourceType |-> "executionworkitem",
   testcase |-> integrationURL(pid, "testcase", testcaseID, FALSE),
   testplan |-> integrationURL(pid, "testplan", testplanID, FALSE),
   executionworkitem |-> Absent, state |-> Absent, totalRunTime |-> Absent,
   owner |-> SetOwner(oOwner, sOwnerID)]

\* CRQMClient.createExecutionResultTemplate: the nodes that carry IDs, the
\* state, the run time and the owner
createExecutionResultTemplate(pid, oOwner, testcaseID, testplanID, TCERID, resultState, duration, sOwnerID) ==
  [resourceType |-> "executionresult",
   testcase |-> integrationURL(pid, "testcase", testcaseID, FALSE),
   testplan |-> integrationURL(pid, "testplan", testplanID, FALSE),
   executionworkitem |-> integrationURL(pid, "executionworkitem", TCERID, FALSE),
   state |-> StateText(resultState),
   totalRunTime |-> ToString(duration),
   owner |-> SetOwner(oOwner, sOwnerID)]

\* the URL getAllTeamAreas stored for a team name
TeamURL(sTeamName) == << host, "/qm/process/project-areas/team-areas/" >> \o sTeamName

\* CRQMClient.addTeamAreaNode on the team-area nodes of a document; teams are
\* the keys of dTeamAreas
addTeamAreaNode_IgnoreCase(root, sTeam, teams) ==
  IF \E t \in teams : str_lower(t) = str_lower(sTeam)
  THEN [ctl |-> "return", val |-> Append(root, TeamURL(sTeam))]
  ELSE [ctl |-> "raise", val |-> root]

addTeamAreaNode(root, sTeam, teams) ==
  IF sTeam \in teams
  THEN [ctl |-> "return", val |-> Append(root, TeamURL(sTeam))]
  ELSE [ctl |-> "raise", val |-> root]

\* a test case document: the nodes createTestcaseTemplate looks for.  A
\* category or custom attribute is Absent when the document has no such node,
\* else it is its value.
TestcaseDoc(owner, Component, Categories, TestType, ASIL, RequirementID, RobotFile) ==
  [title |-> << >>, description |-> << >>, owner |-> owner,
   Component |-> Component, Categories |-> Categories, TestType |-> TestType,
   ASIL |-> ASIL, RequirementID |-> RequirementID, RobotFile |-> RobotFile,
   teamarea |-> << >>]

\* oNode.set('value', s) under `if (oNode != None) and s` (CRQM.py 870-884)
SetCategory(node, s) == IF node # Absent /\ Truthy(s) THEN s ELSE node

\* oNode.find('value').text = s under `if oNode != None` (CRQM.py 887-893)
SetCustomAttribute(node, s) == IF node # Absent THEN s ELSE node

\* CRQMClient.createTestcaseTemplate on the document oTree (the template file,
\* or the test case fetched for an update)
createTestcaseTemplate(oTree, teams, testcaseName, sDescription, sComponent, sFID, sTeam, sRobotFile, sTestType, sASIL, sOwnerID) ==
  LET doc == [oTree EXCEPT
                !.title = testcaseName,
                !.description = sDescription,
                !.owner = SetOwner(oTree.owner, sOwnerID),
                !.Component = SetCategory(oTree.Component, sComponent),
                !.Categories = SetCategory(oTree.Categories, sComponent),
                !.TestType = SetCategory(oTree.TestType, sTestType),
                !.ASIL = SetCategory(oTree.ASIL, sASIL),
                !.RequirementID = SetCustomAttribute(oTree.RequirementID, sFID),
                !.RobotFile = SetCustomAttribute(oTree.RobotFile, sRobotFile)]
  IN  IF Truthy(sTeam)
      THEN LET t == addTeamAreaNode(doc.teamarea, sTeam, teams)
           IN  [ctl |-> t.ctl, val |-> [doc EXCEPT !.teamarea = t.val]]
      ELSE [ctl |-> "return", val |-> doc]

-----------------------------------------------------------------------------
(* process_test *)

Log(level, msg) == [level |-> level, msg |-> msg]

\* the outcomes of one createResource call, over the server's answers
CreateResults(token, pid, resourceType) ==
  UNION { { createResource(token, pid, resourceType, res, resGet) :
              resGet \in GetResponsesFor(token, resourceType, res) } :
          res \in RunResponses(resourceType) }

\* Logger.dryrun, set from the command line by Logger.config
Logger_dryrun_Off == FALSE

Logger_dryrun == args.dryrun

\* addTeamAreaNode raises for a team that getAllTeamAreas did not fetch
TemplateRaises(sTeam) ==
  Truthy(sTeam) /\ addTeamAreaNode(<< >>, sTeam, dTeamAreas).ctl = "raise"

\* process_test's test on the TCER outcome that is not a success
\* (robotlog2rqm.py 558): the TCER exists already
TCERExists_Always(res) == TRUE

TCERExists(res) ==
  (res.status_code = PyInt("303") \/ res.status_code = PyInt("200")) /\ res.id # << >>

\* the exit code after a step that ended with ctl: the process goes on after
\* "return"; Logger.log_error(fatal_error=True) and get_xml_tree call exit(1)
\* ("exit", and "raise" once the run function has caught and logged it), and
\* an exception nobody catches ends the interpreter with 1
ExitCodeAfter_Zero(ctl) == IF ctl = "return" THEN exitCode ELSE << "0" >>

ExitCodeAfter(ctl) == IF ctl = "return" THEN exitCode ELSE << "1" >>

\* what one process_test call is seen to do
Obs(step, ctl, reqs, logs, tcid, tcer, out) ==
  [step |-> step, ctl |-> ctl, reqs |-> reqs, logs |-> logs, tcid |-> tcid,
   tcer |-> tcer, out |-> out, tpls |-> << >>, resTC |-> NoResponse, resPut |-> NoResponse]

WithTemplates(o, tpls) == [o EXCEPT !.tpls = tpls]

\* the end of one process_test call: ctl "return" goes on with the next test;
\* "raise" is caught by the run function, which logs a fatal error and exits
EndTest(test, o, newTCER, newResults, newTCs) ==
  /\ last' = [NoLast EXCEPT !.op = "process_test", !.ctl = o.ctl, !.reqs = o.reqs,
                            !.logs = IF o.ctl = "raise"
                                     THEN o.logs \o << Log("fatal", "Could not import results to RQM") >>
                                     ELSE o.logs,
                            !.test = test, !.step = o.step, !.tcid = o.tcid,
                            !.tcer = o.tcer, !.out = o.out, !.tpls = o.tpls,
                            !.resTC = o.resTC, !.resPut = o.resPut]
  /\ lTCERIDs' = newTCER
  /\ lTCResultIDs' = newResults
  /\ lTestcaseIDs' = newTCs
  /\ sent' = sent \cup Kinds(o.reqs)
  /\ nLeft' = nLeft - 1
  /\ pc' = IF o.ctl = "return" THEN pc ELSE "exited"
  /\ exitCode' = ExitCodeAfter(o.ctl)
  /\ UNCHANGED << args, csrf, projectID, conf, dBuildVersion, dConfiguation,
                  dTeamAreas, calls,
                  lStartTimes, lEndTimes, session >>

\* return (or raise) before any accumulator was touched
AbortTest(test, step, ctl, reqs, logs, tcid, out) ==
  EndTest(test, Obs(step, ctl, reqs, logs, tcid, NoOutcome, out),
          lTCERIDs, lTCResultIDs, lTestcaseIDs)

\* the answers met by the test case update of one process_test call: resTC
\* to the GET, resPut to the PUT (NoResponse when it was not sent)
Update(resTC, resPut) == [resTC |-> resTC, resPut |-> resPut]

NoUpdate == Update(NoResponse, NoResponse)

\* the end of a process_test call that went into the test case update
EndUpdated(test, upd, o, newTCER, newResults, newTCs) ==
  EndTest(test, [o EXCEPT !.resTC = upd.resTC, !.resPut = upd.resPut],
          newTCER, newResults, newTCs)

\* robotlog2rqm.py 567-596 / robot2rqm.py 450-479
ResultStep(test, tcid, tcer, reqs, logs, newTCER, tplTCER, upd) ==
  LET tpls == << tplTCER,
                 createExecutionResultTemplate(projectID, EmptyOwner, tcid, conf.testplan,
                    tcer.id, DRESULT_MAPPING[test.status],
                    tc_duration(test.starttime, test.endtime), << >>) >>
  IN
  \E r \in CreateResults(csrf, projectID, "executionresult") :
    IF r.ctl # "return"
    THEN EndUpdated(test, upd,
                 WithTemplates(Obs("result_" \o r.ctl, r.ctl, reqs \o r.reqs, logs, tcid,
                                   tcer, NoOutcome), tpls),
                 newTCER, lTCResultIDs, lTestcaseIDs)
    ELSE IF r.val.success
    THEN EndUpdated(test, upd,
                 WithTemplates(Obs("linked", "return", reqs \o r.reqs,
                                   logs \o << Log("info", "Create result successfully") >>,
                                   tcid, tcer, r.val), tpls),
                 newTCER, AppendIfNotIn(lTCResultIDs, r.val.id),
                 AppendIfNotIn(lTestcaseIDs, tcid))
    ELSE IF args.variant = "RobotLog2RQM"
    THEN EndUpdated(test, upd,
                 WithTemplates(Obs("result_failed", "return", reqs \o r.reqs,
                                   logs \o << Log("error", "Create result failed") >>,
                                   tcid, tcer, r.val), tpls),
                 newTCER, lTCResultIDs, lTestcaseIDs)
    \* robot2rqm.py 472: the format string takes one argument and is given
    \* two: TypeError instead of the log line
    ELSE EndUpdated(test, upd,
                 WithTemplates(Obs("result_failed", "raise", reqs \o r.reqs, logs, tcid,
                                   tcer, r.val), tpls),
                 newTCER, lTCResultIDs, lTestcaseIDs)

\* robotlog2rqm.py 545-565 / robot2rqm.py 427-448
TCERStep(test, tcid, reqs, logs, upd) ==
  IF TemplateRaises(test.team)
  THEN EndUpdated(test, upd,
                  Obs("team_not_found", "raise", reqs, logs, tcid, NoOutcome, NoOutcome),
                  lTCERIDs, lTCResultIDs, lTestcaseIDs)
  ELSE LET tpl == createTCERTemplate(projectID, EmptyOwner, tcid, conf.testplan, << >>) IN
  \E r \in CreateResults(csrf, projectID, "executionworkitem") :
    IF r.ctl # "return"
    THEN EndUpdated(test, upd,
                 WithTemplates(Obs("tcer_" \o r.ctl, r.ctl, reqs \o r.reqs, logs, tcid,
                                   NoOutcome, NoOutcome), << tpl >>),
                 lTCERIDs, lTCResultIDs, lTestcaseIDs)
    ELSE IF r.val.success
    THEN ResultStep(test, tcid, r.val, reqs \o r.reqs,
                    logs \o << Log("info", "Created TCER") >>,
                    AppendIfNotIn(lTCERIDs, r.val.id), tpl, upd)
    ELSE IF TCERExists(r.val)
    THEN ResultStep(test, tcid, r.val, reqs \o r.reqs,
                    logs \o << Log("warning", "TCER is existing") >>,
                    AppendIfNotIn(lTCERIDs, r.val.id), tpl, upd)
    ELSE EndUpdated(test, upd,
                 WithTemplates(Obs("tcer_failed", "return", reqs \o r.reqs,
                                   logs \o << Log("error", "Create TCER failed") >>,
                                   tcid, r.val, r.val), << tpl >>),
                 lTCERIDs, lTCResultIDs, lTestcaseIDs)

\* `if _tc_createmissing:` (robotlog2rqm.py 501)
CreateMissing_On(c) == TRUE

CreateMissing(c) == Truthy(c.createmissing)

\* robotlog2rqm.py 495-518: no tcid tag
CreateMissingStep(test, logs) ==
  IF ~ CreateMissing(conf)
  THEN AbortTest(test, "no_tcid", "return", << >>,
                 logs \o << Log("error", "There is no 'tcid' information") >>, << >>,
                 NoOutcome)
  ELSE IF TemplateRaises(test.team)
  THEN AbortTest(test, "team_not_found", "raise", << >>, logs, << >>, NoOutcome)
  ELSE \E r \in CreateResults(csrf, projectID, "testcase") :
    IF r.ctl # "return"
    THEN AbortTest(test, "testcase_" \o r.ctl, r.ctl, r.reqs, logs, << >>, NoOutcome)
    ELSE IF r.val.success
    THEN TCERStep(test, r.val.id, r.reqs,
                  logs \o << Log("info", "Create testcase successfully") >>, NoUpdate)
    ELSE AbortTest(test, "testcase_failed", "return", r.reqs,
                   logs \o << Log("error", "Create testcase failed") >>, << >>, r.val)

\* CRQMClient.updateResourceByID (CRQM.py 1696-1697): the response of the PUT
\* is handed back as it is
updateResourceByID_Raising(resourceType, id, res) ==
  Result(IF res.status_code = PyInt("200") THEN "return" ELSE "raise", res,
         << Req("PUT", resourceType, id) >>)

updateResourceByID(resourceType, id, res) ==
  Result("return", res, << Req("PUT", resourceType, id) >>)

\* the answers that matter to one test case update: the PUT is sent when the
\* fetched test case came with 200 and a body that parses; during a run the
\* server accepts the PUT, a direct call of process_test meets a refusal too
PutResponsesFor(resTC) ==
  IF resTC.status_code = PyInt("200") /\ resTC.text.kind = "xml"
  THEN IF pc = "tests" THEN {Response(PyInt("200"), EmptyBody, Absent)}
       ELSE RunPutResponses
  ELSE {NoResponse}

\* robotlog2rqm.py 519-543: a tcid tag is present
UpdateStep(test, tcid, logs) ==
  IF ~ Truthy(conf.updatetestcase)
  THEN TCERStep(test, tcid, << >>, logs, NoUpdate)
  ELSE \E resTC \in RunGetResponses : \E resPut \in PutResponsesFor(resTC) :
    LET get == << Req("GET", "testcase", tcid) >>
        put == updateResourceByID("testcase", tcid, resPut)
        Abort(step, ctl, reqs, lines, res) ==
          EndUpdated(test, Update(resTC, res),
                     Obs(step, ctl, reqs, lines, tcid, NoOutcome, NoOutcome),
                     lTCERIDs, lTCResultIDs, lTestcaseIDs)
    IN  IF resTC.status_code = PyInt("200") /\ resTC.text.kind # "empty"
        THEN IF ~ get_xml_tree(resTC.text)
             THEN Abort("update_exit", "exit", get, logs, NoResponse)
             ELSE IF TemplateRaises(test.team)
             THEN Abort("team_not_found", "raise", get, logs, NoResponse)
             ELSE IF put.ctl # "return"
             THEN Abort("update_" \o put.ctl, put.ctl, get \o put.reqs, logs, put.val)
             ELSE TCERStep(test, tcid, get \o put.reqs,
                           logs \o << Log("info", "Update testcase successfully") >>,
                           Update(resTC, put.val))
        ELSE Abort("update_failed", "return", get,
                   logs \o << Log("error", "Update testcase failed") >>, NoResponse)

\* `_tc_id = lTCIDTags[0]` (robotlog2rqm.py 521-522)
FirstTag_Last(lTCIDTags) == lTCIDTags[Len(lTCIDTags)]

FirstTag(lTCIDTags) == lTCIDTags[1]

\* process_test (robotlog2rqm.py 435-596, robot2rqm.py 327-479)
process_test(test) ==
  LET logs0     == << Log("info", "Process test") >>
      lTCIDTags == get_from_tags(test.tags, "tcid-")
      tc_id     == join(";", lTCIDTags)
  IN  IF Logger_dryrun
      THEN AbortTest(test, "dryrun", "return", << >>, logs0, None, NoOutcome)
      \* robot2rqm.py 362: RobotResults2RQM's client has no attribute updatetestcase
      ELSE IF conf.updatetestcase = Absent
      THEN AbortTest(test, "attribute_error", "raise", << >>, logs0, tc_id, NoOutcome)
      ELSE IF test.status \notin DOMAIN DRESULT_MAPPING
      THEN AbortTest(test, "invalid_status", "return", << >>,
                     logs0 \o << Log("error", "Invalid Robotframework result state") >>,
                     tc_id, NoOutcome)
      ELSE IF tc_id = << >>
      THEN CreateMissingStep(test, logs0)
      ELSE IF Len(lTCIDTags) > 1
      THEN UpdateStep(test, FirstTag(lTCIDTags),
                      logs0 \o << Log("warning", "More than 1 'tcid-' tags") >>)
      ELSE UpdateStep(test, tc_id, logs0)

ProcessTest ==
  /\ pc = "tests" /\ nLeft > 0
  /\ \E test \in TestPool : process_test(test)

-----------------------------------------------------------------------------
(* The run function: RobotLog2RQM() / RobotResults2RQM() *)

Variants == {"RobotLog2RQM", "RobotResults2RQM"}

\* the step after `step`: RobotLog2RQM parses the result files and then logs
\* in; RobotResults2RQM logs in and then parses the result files
StepAfter(step) ==
  IF args.variant = "RobotLog2RQM"
  THEN (IF step = "parse" THEN "login" ELSE "config")
  ELSE (IF step = "login" THEN "parse" ELSE "config")

Init ==
  /\ args \in [variant : Variants, dryrun : BOOLEAN,
               createmissing : BOOLEAN, updatetestcase : BOOLEAN]
  /\ pc = IF args.variant = "RobotLog2RQM" THEN "parse" ELSE "login"
  /\ nLeft = 0
  /\ exitCode = None
  /\ csrf = << >>
  /\ projectID = ProjectAlias
  \* CRQMClient.__init__: RobotResults2RQM's sets no updatetestcase attribute
  /\ conf = [ConfInit EXCEPT !.updatetestcase =
                IF args.variant = "RobotLog2RQM" THEN None ELSE Absent]
  /\ dBuildVersion = << >>
  /\ dConfiguation = << >>
  /\ dTeamAreas = {}
  /\ lTestcaseIDs = << >> /\ lTCERIDs = << >> /\ lTCResultIDs = << >>
  /\ last = NoLast
  /\ sent = {}
  /\ calls = << >>
  /\ lStartTimes = << >> /\ lEndTimes = << >>
  /\ session = "none"

\* a step of the run function that touches neither the client's configuration
\* nor its caches and accumulators
RunStep(op, step, ctl, reqs, logs, next) ==
  /\ last' = [NoLast EXCEPT !.op = op, !.step = step, !.ctl = ctl, !.reqs = reqs,
                            !.logs = logs]
  /\ sent' = sent \cup Kinds(reqs)
  /\ pc' = IF ctl = "return" THEN next ELSE "exited"
  /\ exitCode' = ExitCodeAfter(ctl)

\* robotlog2rqm.py 638-671: find and parse the result files; n is the number
\* of tests of the parsed tree
ParseResults ==
  /\ pc = "parse"
  /\ \/ \E why \in {"path_missing", "no_result_file"} :
          /\ RunStep("parse", why, "exit", << >>, << Log("fatal", why) >>, pc)
          /\ UNCHANGED nLeft
     \/ /\ RunStep("parse", "unparsable", "raise", << >>, << >>, pc)
        /\ UNCHANGED nLeft
     \/ \E n \in 0..MaxTests :
          /\ RunStep("parse", "parsed", "return", << >>, << >>, StepAfter("parse"))
          /\ nLeft' = n
  /\ UNCHANGED << args, csrf, projectID, conf, dBuildVersion, dConfiguation,
                  dTeamAreas, lTestcaseIDs, lTCERIDs, lTCResultIDs, calls,
                  lStartTimes, lEndTimes, session >>

\* CRQMClient.login with verifyProjectName, as called by the run function
\* (robotlog2rqm.py 674-682): a failed login is logged, not fatal
LoginFailure(step, reqs) ==
  RunStep("login", step, "return", reqs, << Log("error", "Could not login to RQM") >>,
          StepAfter("login"))

Login ==
  /\ pc = "login"
  /\ session' = "open"      \* CRQMClient(...): self.session = requests.Session()
  /\ LET post == << Req("POST", "j_security_check", None) >>
         get  == << Req("GET", "project-areas", None) >>
     IN
     \/ \* credentials rejected: login returns False
        /\ LoginFailure("rejected", post)
        /\ UNCHANGED << csrf, projectID >>
     \/ \* verifyProjectName: no 200, or no project area of that name
        /\ LoginFailure("project_not_found", post \o get)
        /\ UNCHANGED << csrf, projectID >>
     \/ \* the project areas do not parse: get_xml_tree exits
        /\ RunStep("login", "project_areas_unparsable", "exit", post \o get, << >>, pc)
        /\ UNCHANGED << csrf, projectID >>
     \/ \* project found, no JSESSIONID cookie: login raises
        /\ LoginFailure("cookie_missing", post \o get)
        /\ projectID' = ProjectUUID
        /\ UNCHANGED csrf
     \/ /\ RunStep("login", "logged_in", "return", post \o get,
                   << Log("info", "Login RQM successfully") >>, StepAfter("login"))
        /\ projectID' = ProjectUUID
        /\ csrf' = Token
  /\ UNCHANGED << args, nLeft, conf, dBuildVersion, dConfiguation, dTeamAreas,
                  lTestcaseIDs, lTCERIDs, lTCResultIDs, calls,
                  lStartTimes, lEndTimes >>

TestPlanID == << "7" >>         \* args.testplan

\* the listings of build records / configurations the server serves
RunListings ==
  { << Page("xml", << >>) >>,
    << Page("xml", << << << "2" >>, << "v2.0" >> >> >>),
       Page("xml", << << << "1" >>, << "v1.0" >> >> >>) >>,
    << Page("xml", << << << "1" >>, << "v1.0" >> >> >>), Page("broken", << >>) >>,
    << Page("garbage", << >>) >> }

\* config's test on the outcome of createBuildRecord / createConfiguration
\* (CRQM.py 356, 368)
ConfigAccepts(res) == res.success \/ res.status_code = PyStr("303")

\* what one config call is seen to do: its arguments, the answer to the test
\* plan GET, the outcomes of createBuildRecord and createConfiguration, and
\* the later of the two (out)
ConfigObs(res_plan, build_name, config_name) ==
  [arg |-> [build_name |-> build_name, config_name |-> config_name],
   res_plan |-> res_plan, res_build |-> NoOutcome, res_conf |-> NoOutcome,
   out |-> NoOutcome]

\* the end of config(): "raise" is re-raised and caught by the run function,
\* which logs a fatal error and exits
EndConfig(step, ctl, reqs, newConf, newBuilds, newConfs, newTeams, o) ==
  /\ last' = [NoLast EXCEPT !.op = "config", !.step = step, !.ctl = ctl, !.reqs = reqs,
                            !.out = o.out, !.res = o.res_plan, !.arg = o.arg,
                            !.res_build = o.res_build, !.res_conf = o.res_conf,
                            !.logs = IF ctl = "raise"
                                     THEN << Log("fatal", "Could not import results to RQM") >>
                                     ELSE << >>]
  /\ conf' = newConf
  /\ dBuildVersion' = newBuilds
  /\ dConfiguation' = newConfs
  /\ dTeamAreas' = newTeams
  /\ sent' = sent \cup Kinds(reqs)
  /\ pc' = IF ctl = "return" THEN "tests" ELSE "exited"
  /\ exitCode' = ExitCodeAfter(ctl)
  /\ UNCHANGED << args, nLeft, csrf, projectID, lTestcaseIDs, lTCERIDs, lTCResultIDs,
                  calls,
                  lStartTimes, lEndTimes, session >>

\* CRQM.py 374-375: getAllTeamAreas
TeamAreasStage(c, reqs, builds, confs, o) ==
  LET get == reqs \o << Req("GET", "team-areas", None) >>
  IN  \/ EndConfig("team_areas_failed", "raise", get, c, builds, confs, dTeamAreas, o)
      \/ EndConfig("team_areas_unparsable", "exit", get, c, builds, confs, dTeamAreas, o)
      \/ EndConfig("configured", "return", get, c, builds, confs,
                   dTeamAreas \cup {KnownTeam}, o)

\* CRQM.py 362-372: the test environment, when one is named
ConfigurationStage(c, reqs, builds, o) ==
  LET config_name == o.arg.config_name IN
  IF config_name = None
  THEN TeamAreasStage(c, reqs, builds, dConfiguation, o)
  ELSE IF config_name = << >>
  THEN EndConfig("configuration_name_empty", "raise", reqs, c, builds, dConfiguation,
                 dTeamAreas, o)
  ELSE \E listing \in RunListings :
    LET g == getAllByResource("configuration", listing)
    IN  IF g.ctl = "exit"
        THEN EndConfig("configurations_unparsable", "exit", reqs \o g.reqs, c, builds,
                       dConfiguation, dTeamAreas, o)
        ELSE IF ~ g.val.success
        THEN EndConfig("get_configurations_failed", "raise", reqs \o g.reqs, c, builds,
                       dConfiguation, dTeamAreas, o)
        ELSE \E r \in {createConfiguration(g.val.data, csrf, projectID, config_name, FALSE, res) :
                         res \in ConfigResponses("configuration")} :
          LET o2 == [o EXCEPT !.res_conf = r.val, !.out = r.val] IN
          IF r.ctl # "return"
          THEN EndConfig("configuration_" \o r.ctl, r.ctl, reqs \o g.reqs \o r.reqs, c,
                         builds, r.dict, dTeamAreas, o)
          ELSE IF ConfigAccepts(r.val)
          THEN TeamAreasStage([c EXCEPT !.configuration = r.val.id],
                              reqs \o g.reqs \o r.reqs, builds, r.dict, o2)
          ELSE EndConfig("create_configuration_failed", "raise", reqs \o g.reqs \o r.reqs,
                         c, builds, r.dict, dTeamAreas, o2)

\* CRQM.py 350-360: the build record, when one is named
BuildStage(c, reqs, o) ==
  LET build_name == o.arg.build_name IN
  IF build_name = None
  THEN ConfigurationStage(c, reqs, dBuildVersion, o)
  ELSE IF build_name = << >>
  THEN EndConfig("build_name_empty", "raise", reqs, c, dBuildVersion, dConfiguation,
                 dTeamAreas, o)
  ELSE \E listing \in RunListings :
    LET g == getAllByResource("buildrecord", listing)
    IN  IF g.ctl = "exit"
        THEN EndConfig("builds_unparsable", "exit", reqs \o g.reqs, c, dBuildVersion,
                       dConfiguation, dTeamAreas, o)
        ELSE IF ~ g.val.success
        THEN EndConfig("get_builds_failed", "raise", reqs \o g.reqs, c, dBuildVersion,
                       dConfiguation, dTeamAreas, o)
        ELSE \E r \in {createBuildRecord(g.val.data, csrf, projectID, build_name, FALSE, res) :
                         res \in ConfigResponses("buildrecord")} :
          LET o2 == [o EXCEPT !.res_build = r.val, !.out = r.val] IN
          IF r.ctl # "return"
          THEN EndConfig("build_" \o r.ctl, r.ctl, reqs \o g.reqs \o r.reqs, c,
                         r.dict, dConfiguation, dTeamAreas, o)
          ELSE IF ConfigAccepts(r.val)
          THEN ConfigurationStage([c EXCEPT !.build = r.val.id],
                                  reqs \o g.reqs \o r.reqs, r.dict, o2)
          ELSE EndConfig("create_build_failed", "raise", reqs \o g.reqs \o r.reqs,
                         c, r.dict, dConfiguation, dTeamAreas, o2)

\* the answers to the GET of the test plan
TestPlanResponses ==
  {Response(PyInt("200"), XmlBody(Absent, << "7" >>), Absent),
   Response(PyInt("200"), EmptyBody, Absent),
   Response(PyInt("500"), EmptyBody, Absent)}

\* `if res_plan.status_code != 200: raise` (CRQM.py 346-347)
TestPlanExists_Always(res_plan) == TRUE

TestPlanExists(res_plan) == res_plan.status_code = PyInt("200")

\* CRQMClient.config as called by the run function (robotlog2rqm.py 686-696,
\* robot2rqm.py 560-571).  RobotResults2RQM's config has no updatetestcase
\* parameter: the fifth positional argument lands in suite_id.
config(res_plan, build_name, config_name) ==
  LET c == IF args.variant = "RobotLog2RQM"
           THEN [conf EXCEPT !.createmissing = PyBool(args.createmissing),
                             !.updatetestcase = PyBool(args.updatetestcase),
                             !.testsuite = None,
                             !.testplan = TestPlanID]
           ELSE [conf EXCEPT !.createmissing = PyBool(args.createmissing),
                             !.testsuite = PyBool(args.updatetestcase),
                             !.testplan = TestPlanID]
      get == << Req("GET", "testplan", TestPlanID) >>
      o   == ConfigObs(res_plan, build_name, config_name)
  IN  IF ~ TestPlanExists(res_plan)
      THEN EndConfig("testplan_not_found", "raise", get, c, dBuildVersion, dConfiguation,
                     dTeamAreas, o)
      ELSE BuildStage(c, get, o)

\* metadata 'version_sw' and 'project' of the result tree name the build and
\* the configuration; they are None when empty and under dryrun.  The trees
\* met carry both entries or neither.
Config ==
  /\ pc = "config"
  /\ \E name \in IF args.dryrun THEN {None} ELSE {None, << "v1.0" >>} :
       \E res_plan \in TestPlanResponses : config(res_plan, name, name)

\* the test plans the server serves: the test case links they hold already
PlanPool == { << >>, << ServerURN("testcase", << "100" >>) >> }

\* the body PUT by linkListTestcase2Testplan: the fetched plan with one
\* testcase element appended per ID, in the order of the list (CRQM.py 1745-1749)
LinkBody_Reversed(pid, plan, lTestcases) ==
  plan \o [i \in 1..Len(lTestcases) |->
             integrationURL(pid, "testcase", lTestcases[Len(lTestcases) + 1 - i], FALSE)]

LinkBody(pid, plan, lTestcases) ==
  plan \o [i \in 1..Len(lTestcases) |->
             integrationURL(pid, "testcase", lTestcases[i], FALSE)]

LinkStep(step, ctl, reqs, plan, body, next) ==
  /\ last' = [NoLast EXCEPT !.op = "link", !.step = step, !.ctl = ctl, !.reqs = reqs,
                            !.plan = plan, !.body = body]
  /\ sent' = sent \cup Kinds(reqs)
  /\ pc' = IF ctl = "return" THEN next ELSE "exited"
  /\ exitCode' = ExitCodeAfter(ctl)

\* CRQMClient.linkListTestcase2Testplan as called by the run function
\* (robotlog2rqm.py 700-702): its returned outcome is not consulted
Link ==
  /\ pc = "tests" /\ nLeft = 0
  /\ LET get == << Req("GET", "testplan", TestPlanID) >>
         put == << Req("PUT", "testplan", TestPlanID) >>
     IN  IF Len(lTestcaseIDs) > 0
         THEN \/ LinkStep("testplan_unparsable", "exit", get, << >>, << >>, pc)
              \/ \E plan \in PlanPool, ok \in BOOLEAN :
                   LinkStep(IF ok THEN "linked" ELSE "link_failed", "return",
                            get \o put, plan, LinkBody(projectID, plan, lTestcaseIDs),
                            "disconnect")
         ELSE LinkStep("nothing_to_link", "return", << >>, << >>, << >>, "disconnect")
  /\ UNCHANGED << args, nLeft, csrf, projectID, conf, dBuildVersion, dConfiguation,
                  dTeamAreas, lTestcaseIDs, lTCERIDs, lTCResultIDs, calls,
                  lStartTimes, lEndTimes, session >>

\* robotlog2rqm.py 710-712
Disconnect ==
  /\ pc = "disconnect"
  /\ last' = [NoLast EXCEPT !.op = "disconnect", !.step = "disconnected"]
  /\ session' = "closed"    \* CRQMClient.disconnect: self.session.close()
  /\ pc' = "done"
  /\ exitCode' = << "0" >>
  /\ UNCHANGED << args, nLeft, csrf, projectID, conf, dBuildVersion, dConfiguation,
                  dTeamAreas, lTestcaseIDs, lTCERIDs, lTCResultIDs, sent, calls,
                  lStartTimes, lEndTimes >>

Next == ParseResults \/ Login \/ Config \/ ProcessTest \/ Link \/ Disconnect

Spec == Init /\ [][Next]_vars

-----------------------------------------------------------------------------
(* SpecClient: the client's creation API called directly *)

CachePool == { << >>,
               << << << "2" >>, << "v2.0" >> >>, << << "1" >>, << "v1.0" >> >> >> }

InitClient ==
  /\ args = [variant |-> "RobotLog2RQM", dryrun |-> FALSE,
             createmissing |-> FALSE, updatetestcase |-> FALSE]
  /\ pc = "api"
  /\ nLeft = 0
  /\ exitCode = None
  /\ \E client \in { << << >>, ProjectAlias >>, << << >>, ProjectUUID >>,
                       << Token, ProjectUUID >> } :
       csrf = client[1] /\ projectID = client[2]
  /\ conf = ConfInit
  /\ dBuildVersion \in CachePool
  /\ dConfiguation \in CachePool
  /\ dTeamAreas = {}
  /\ lTestcaseIDs = << >> /\ lTCERIDs = << >> /\ lTCResultIDs = << >>
  /\ last = NoLast
  /\ sent = {}
  /\ calls = << >>
  /\ lStartTimes = << >> /\ lEndTimes = << >>
  /\ session = "open"

\* the answers to the creation POST of a build record or a test environment
\* met by a direct call: those of a run, a second ID, and a 201 that names no ID
CallResponses(resourceType) ==
  ConfigResponses(resourceType)
    \cup {Response(PyInt("201"), XmlBody(<< "2" >>, Absent), Absent),
          Response(PyInt("201"), EmptyBody, << >>)}

CallEntry(op, name, force, r) ==
  [op |-> op, name |-> name, force |-> force, ctl |-> r.ctl, posts |-> Posts(r.reqs),
   success |-> r.val.success, id |-> r.val.id, status_code |-> r.val.status_code]

\* a direct call of createResource, the first call after construction / login
CallCreateResource ==
  /\ pc = "api" /\ calls = << >> /\ last.op = ""
  /\ \E t \in ResourceTypes : \E res \in PostResponses(t) :
       \E resGet \in GetResponsesFor(csrf, t, res) :
         LET r == createResource(csrf, projectID, t, res, resGet)
         IN  /\ last' = [NoLast EXCEPT !.op = "createResource", !.ctl = r.ctl,
                                       !.reqs = r.reqs, !.res = res, !.resGet = resGet,
                                       !.out = r.val, !.arg = << t >>]
             /\ sent' = sent \cup Kinds(r.reqs)
             /\ pc' = IF r.ctl = "exit" THEN "exited" ELSE pc
             /\ exitCode' = IF r.ctl = "exit" THEN << "1" >> ELSE exitCode
  /\ UNCHANGED << args, nLeft, csrf, projectID, conf, dBuildVersion, dConfiguation,
                  dTeamAreas, lTestcaseIDs, lTCERIDs, lTCResultIDs, calls,
                  lStartTimes, lEndTimes, session >>

CallCreateBuildRecord ==
  /\ pc = "api" /\ Len(calls) < MaxCalls /\ last.op # "createResource"
  /\ \E name \in BuildNames, force \in BOOLEAN :
       \E r \in {createBuildRecord(dBuildVersion, csrf, projectID, name, force, res) :
                   res \in CallResponses("buildrecord")} :
             /\ dBuildVersion' = r.dict
             /\ calls' = Append(calls, CallEntry("createBuildRecord", name, force, r))
             /\ last' = [NoLast EXCEPT !.op = "createBuildRecord", !.ctl = r.ctl,
                                       !.reqs = r.reqs, !.out = r.val, !.arg = name]
             /\ sent' = sent \cup Kinds(r.reqs)
             /\ pc' = IF r.ctl = "exit" THEN "exited" ELSE pc
             /\ exitCode' = IF r.ctl = "exit" THEN << "1" >> ELSE exitCode
  /\ UNCHANGED << args, nLeft, csrf, projectID, conf, dConfiguation,
                  dTeamAreas, lTestcaseIDs, lTCERIDs, lTCResultIDs,
                  lStartTimes, lEndTimes, session >>

CallCreateConfiguration ==
  /\ pc = "api" /\ Len(calls) < MaxCalls /\ last.op # "createResource"
  /\ \E name \in BuildNames, force \in BOOLEAN :
       \E r \in {createConfiguration(dConfiguation, csrf, projectID, name, force, res) :
                   res \in CallResponses("configuration")} :
             /\ dConfiguation' = r.dict
             /\ calls' = Append(calls, CallEntry("createConfiguration", name, force, r))
             /\ last' = [NoLast EXCEPT !.op = "createConfiguration", !.ctl = r.ctl,
                                       !.reqs = r.reqs, !.out = r.val, !.arg = name]
             /\ sent' = sent \cup Kinds(r.reqs)
             /\ pc' = IF r.ctl = "exit" THEN "exited" ELSE pc
             /\ exitCode' = IF r.ctl = "exit" THEN << "1" >> ELSE exitCode
  /\ UNCHANGED << args, nLeft, csrf, projectID, conf, dBuildVersion,
                  dTeamAreas, lTestcaseIDs, lTCERIDs, lTCResultIDs,
                  lStartTimes, lEndTimes, session >>

NextClient == CallCreateResource \/ CallCreateBuildRecord \/ CallCreateConfiguration

SpecClient == InitClient /\ [][NextClient]_vars

-----------------------------------------------------------------------------
(* SpecPure: integrationURL and the create...Template functions called directly *)

InitPure ==
  /\ args \in [variant : {"RobotLog2RQM"}, dryrun : BOOLEAN,
               createmissing : {FALSE}, updatetestcase : {FALSE}]
  /\ pc = "pure"
  /\ nLeft = 0
  /\ exitCode = None
  /\ csrf = << >>
  /\ projectID \in {ProjectAlias, ProjectUUID}
  /\ conf = ConfInit
  /\ dBuildVersion = << >> /\ dConfiguation = << >>
  /\ dTeamAreas \in {{}, {KnownTeam}}
  /\ lTestcaseIDs = << >> /\ lTCERIDs = << >> /\ lTCResultIDs = << >>
  /\ last = NoLast
  /\ sent = {}
  /\ calls = << >>
  /\ lStartTimes = << >> /\ lEndTimes = << >>
  /\ session = "open"

\* the IDs handed to integrationURL: none, empty, digits only (one token and
\* several), without digits, and digits mixed with other characters
URLIds == { None, << >>, << "1" >>, << "100" >>, << "7", "100" >>, SlugID,
            << "TC_A" >>, << "1", "TC_A" >>, << "TC_A", "2" >> }

URLResourceTypes == {"testcase", "testplan", "executionworkitem", "buildrecord"}

\* one call of a function that touches no attribute of the client, made on a
\* client on which no call was made yet
PureCall(op, arg, ret, tpls) ==
  /\ last.op = ""
  /\ last' = [NoLast EXCEPT !.op = op, !.arg = arg, !.ret = ret, !.tpls = tpls]
  /\ UNCHANGED << args, pc, nLeft, exitCode, csrf, projectID, conf, dBuildVersion,
                  dConfiguation, dTeamAreas, lTestcaseIDs, lTCERIDs, lTCResultIDs,
                  sent, calls,
                  lStartTimes, lEndTimes, session >>

CallIntegrationURL ==
  /\ pc = "pure"
  /\ \E t \in URLResourceTypes, id \in URLIds, force \in BOOLEAN :
       PureCall("integrationURL",
                [resourceType |-> t, id |-> id, forceinternalID |-> force],
                integrationURL(projectID, t, id, force), << >>)

upperChar(c) ==
  IF \E i \in 1..Len(LowerCase) : LowerCase[i] = c
  THEN UpperCase[CHOOSE i \in 1..Len(LowerCase) : LowerCase[i] = c]
  ELSE c

\* a word in one of four letter cases
Casings == {"lower", "UPPER", "Title", "mIxEd"}
Cased(w, casing) ==
  [i \in 1..Len(w) |->
     CASE casing = "UPPER" -> upperChar(w[i])
       [] casing = "Title" -> (IF i = 1 THEN upperChar(w[i]) ELSE w[i])
       [] casing = "mIxEd" -> (IF i % 2 = 0 THEN upperChar(w[i]) ELSE w[i])
       [] OTHER            -> w[i]]

\* the result states handed to createExecutionResultTemplate: the twelve
\* states in each letter case, and strings that are none of them
OtherStates == { << >>,
                 << "p", "a", "s", "s" >>,
                 << "P", "A", "S", "S" >>,
                 << "p", "a", "s", "s", "e", "d", " " >>,
                 << "n", "o", "t", " ", "r", "u", "n" >>,
                 << "s", "k", "i", "p", "p", "e", "d" >>,
                 << "U", "n", "k", "n", "o", "w", "n" >> }

ResultStateInputs ==
  {Cased(RESULT_STATES[k], c) : k \in 1..Len(RESULT_STATES), c \in Casings}
    \cup OtherStates

\* the owner nodes of the documents handed to a create...Template: empty
\* (no text), with an empty text, and naming a user
OwnerPool == { EmptyOwner, OwnerNode(<< >>, << >>),
               OwnerNode(<< "someone" >>, userURL(<< "someone" >>)) }

OwnerIDs == { << >>, << "owner1" >> }      \* sOwnerID

CallCreateExecutionResultTemplate ==
  /\ pc = "pure"
  /\ \E resultState \in ResultStateInputs, duration \in {0, 5} :
       \E oOwner \in OwnerPool, sOwnerID \in OwnerIDs :
         PureCall("createExecutionResultTemplate",
                  [resultState |-> resultState, duration |-> duration,
                   oOwner |-> oOwner, sOwnerID |-> sOwnerID],
                  << >>,
                  << createExecutionResultTemplate(projectID, oOwner, << "100" >>,
                        TestPlanID, << "1" >>, resultState, duration, sOwnerID) >>)

CallCreateTCERTemplate ==
  /\ pc = "pure"
  /\ \E testcaseID \in {<< "100" >>, << "TC_A" >>} :
       \E oOwner \in OwnerPool, sOwnerID \in OwnerIDs :
         PureCall("createTCERTemplate",
                  [testcaseID |-> testcaseID, oOwner |-> oOwner, sOwnerID |-> sOwnerID],
                  << >>,
                  << createTCERTemplate(projectID, oOwner, testcaseID, TestPlanID,
                                        sOwnerID) >>)

\* the documents handed to createTestcaseTemplate: the template file (no
\* Categories node, the other nodes without a value), a test case fetched for
\* an update (every node but Categories with a value, an owner), and a
\* document without any category or custom attribute
DocPool ==
  { TestcaseDoc(EmptyOwner, << >>, Absent, << >>, << >>, << >>, << >>),
    TestcaseDoc(OwnerNode(<< "someone" >>, userURL(<< "someone" >>)),
                << "cmp_old" >>, Absent, << "type_old" >>, << "asil_old" >>,
                << "REQ-1" >>, << "old.robot" >>),
    TestcaseDoc(OwnerNode(<< >>, << >>), Absent, << "cat_old" >>, Absent, Absent,
                Absent, Absent) }

\* KnownTeam in another letter case
CasedTeam == << "T", "E", "A", "M", "A" >>

TeamNames == { << >>, KnownTeam, CasedTeam, UnknownTeam }

CallCreateTestcaseTemplate ==
  /\ pc = "pure"
  /\ \E oTree \in DocPool, sTeam \in TeamNames, sOwnerID \in OwnerIDs :
       \E sComponent \in {<< >>, << "cmp_new" >>}, sFID \in {<< >>, << "REQ-2" >>},
          sRobotFile \in {<< >>, << "new.robot" >>},
          sTestType \in {<< >>, << "type_new" >>}, sASIL \in {<< >>, << "asil_new" >>} :
         LET r == createTestcaseTemplate(oTree, dTeamAreas, << "test 1" >>, << "doc" >>,
                                         sComponent, sFID, sTeam, sRobotFile, sTestType,
                                         sASIL, sOwnerID)
         IN  PureCall("createTestcaseTemplate",
                      [oTree |-> oTree, sComponent |-> sComponent, sFID |-> sFID,
                       sTeam |-> sTeam, sRobotFile |-> sRobotFile,
                       sTestType |-> sTestType, sASIL |-> sASIL, sOwnerID |-> sOwnerID],
                      r, << >>)

\* the result trees: one suite; a top suite with metadata over two suites, one
\* without metadata and one with its own; a top suite without metadata over
\* one suite; three levels; a suite with a test of its own and a child suite
LeafPool ==
  << Suite("A", << >>, << >>, << "t1" >>),
     Suite("B", << << "version_sw", << "v2.0" >> >>, << "team-area", KnownTeam >> >>,
           << >>, << "t2", "t3" >>) >>

TreePool ==
  { LeafPool[2],
    Suite("top", << << "version_sw", << "v1.0" >> >>, << "project", << "P1" >> >> >>,
          LeafPool, << >>),
    Suite("top", << >>, << LeafPool[2] >>, << >>),
    Suite("top", << << "project", << "P1" >> >> >>,
          << Suite("mid", << << "version_sw", << "v1.0" >> >> >>, << LeafPool[1] >>, << >>),
             LeafPool[2] >>,
          << >>),
    Suite("top", << >>, << LeafPool[2] >>, << "t0" >>) }

\* robotlog2rqm.py 686-698 under --dryrun: process_suite_metadata, then
\* process_suite, over the parsed tree
CallProcessSuite ==
  /\ pc = "pure" /\ args.dryrun
  /\ \E suite \in TreePool :
       PureCall("process_suite", suite,
                [metadata_info |-> process_suite_metadata(suite, DEFAULT_METADATA),
                 suite |-> process_suite(suite, NoSuite),
                 tests |-> TestsProcessed(suite)],
                << >>)

NextPure ==
  \/ CallProcessSuite
  \/ CallIntegrationURL
  \/ CallCreateExecutionResultTemplate
  \/ CallCreateTCERTemplate
  \/ CallCreateTestcaseTemplate

SpecPure == InitPure /\ [][NextPure]_vars

-----------------------------------------------------------------------------
(* SpecTest: process_test called directly on a configured client, after a
   login that succeeded or was rejected *)

InitTest ==
  /\ args \in [variant : {"RobotLog2RQM"}, dryrun : {FALSE},
               createmissing : BOOLEAN, updatetestcase : BOOLEAN]
  /\ pc = "test"
  /\ nLeft = 1
  /\ exitCode = None
  /\ csrf \in {<< >>, Token} /\ projectID = ProjectUUID
  /\ conf = [ConfInit EXCEPT !.testplan = TestPlanID,
                             !.createmissing = PyBool(args.createmissing),
                             !.updatetestcase = PyBool(args.updatetestcase)]
  /\ dBuildVersion = << >>
  /\ dConfiguation = << >>
  /\ dTeamAreas \in {{}, {KnownTeam}}
  /\ lTestcaseIDs = << >> /\ lTCERIDs = << >> /\ lTCResultIDs = << >>
  /\ last = NoLast
  /\ sent = {}
  /\ calls = << >>
  /\ lStartTimes = << >> /\ lEndTimes = << >>
  /\ session = "open"

CallProcessTest ==
  /\ pc = "test" /\ nLeft > 0
  /\ \E test \in TestPool : process_test(test)

NextTest == CallProcessTest

SpecTest == InitTest /\ [][NextTest]_vars

-----------------------------------------------------------------------------
(* SpecConfig: config, getAllBuildRecords and getAllConfigurations called
   directly on a client *)

InitConfig ==
  /\ args \in [variant : Variants, dryrun : {FALSE},
               createmissing : {TRUE}, updatetestcase : {FALSE}]
  /\ pc = "api"
  /\ nLeft = 0
  /\ exitCode = None
  /\ \E client \in { << << >>, ProjectAlias >>, << Token, ProjectUUID >> } :
       csrf = client[1] /\ projectID = client[2]
  /\ conf = [ConfInit EXCEPT !.updatetestcase =
                IF args.variant = "RobotLog2RQM" THEN None ELSE Absent]
  /\ dBuildVersion \in CachePool
  /\ dConfiguation \in CachePool
  /\ dTeamAreas = {}
  /\ lTestcaseIDs = << >> /\ lTCERIDs = << >> /\ lTCResultIDs = << >>
  /\ last = NoLast
  /\ sent = {}
  /\ calls = << >>
  /\ lStartTimes = << >> /\ lEndTimes = << >>
  /\ session = "open"

\* the names handed to config: none (None), empty, and one the server may list
ConfigNames == {None, << >>, << "v1.0" >>}

CallConfig ==
  /\ pc = "api"
  /\ \E build_name \in ConfigNames, config_name \in ConfigNames :
       \E res_plan \in TestPlanResponses : config(res_plan, build_name, config_name)

\* the listings served to a direct call: those of a run, a listing whose third
\* page fails, one of three pages where the last page lists an ID of the first
\* page again under another name, and one whose second page does not parse
ListingPool ==
  RunListings \cup
  { << Page("xml", << << << "2" >>, << "v2.0" >> >> >>),
       Page("xml", << << << "1" >>, << "v1.0" >> >> >>),
       Page("broken", << >>) >>,
    << Page("xml", << << << "2" >>, << "v2.0" >> >> >>),
       Page("xml", << << << "1" >>, << "v1.0" >> >> >>),
       Page("xml", << << << "7" >>, << "v2.0" >> >>, << << "2" >>, << "v1.0" >> >> >>) >>,
    << Page("xml", << << << "1" >>, << "v1.0" >> >> >>), Page("garbage", << >>) >> }

\* getAllBuildRecords / getAllConfigurations (CRQM.py 645-679): the cache is
\* replaced by the data of a successful envelope; else the call raises
GetAllCached(resourceType, d, listing) ==
  LET g   == getAllByResource(resourceType, listing)
      ctl == IF g.ctl = "exit" THEN "exit"
             ELSE IF g.val.success THEN "return" ELSE "raise"
  IN  [ctl |-> ctl, val |-> g.val, reqs |-> g.reqs,
       dict |-> IF ctl = "return" THEN g.val.data ELSE d]

CallGetAll(op, resourceType, d, listing) ==
  LET r == GetAllCached(resourceType, d, listing)
  IN  /\ last' = [NoLast EXCEPT !.op = op, !.ctl = r.ctl, !.reqs = r.reqs,
                                !.arg = listing,
                                !.ret = IF r.ctl = "exit" THEN << >> ELSE r.val]
      /\ calls' = Append(calls, [op |-> op, ctl |-> r.ctl])
      /\ sent' = sent \cup Kinds(r.reqs)
      /\ pc' = IF r.ctl = "exit" THEN "exited" ELSE pc
      /\ exitCode' = IF r.ctl = "exit" THEN << "1" >> ELSE exitCode

CallGetAllBuildRecords ==
  /\ pc = "api" /\ Len(calls) < MaxCalls
  /\ \E listing \in ListingPool :
       /\ CallGetAll("getAllBuildRecords", "buildrecord", dBuildVersion, listing)
       /\ dBuildVersion' = GetAllCached("buildrecord", dBuildVersion, listing).dict
  /\ UNCHANGED << args, nLeft, csrf, projectID, conf, dConfiguation,
                  dTeamAreas, lTestcaseIDs, lTCERIDs, lTCResultIDs,
                  lStartTimes, lEndTimes, session >>

CallGetAllConfigurations ==
  /\ pc = "api" /\ Len(calls) < MaxCalls
  /\ \E listing \in ListingPool :
       /\ CallGetAll("getAllConfigurations", "configuration", dConfiguation, listing)
       /\ dConfiguation' = GetAllCached("configuration", dConfiguation, listing).dict
  /\ UNCHANGED << args, nLeft, csrf, projectID, conf, dBuildVersion,
                  dTeamAreas, lTestcaseIDs, lTCERIDs, lTCResultIDs,
                  lStartTimes, lEndTimes, session >>

NextConfig == CallConfig \/ CallGetAllBuildRecords \/ CallGetAllConfigurations

SpecConfig == InitConfig /\ [][NextConfig]_vars

-----------------------------------------------------------------------------
(* Properties of process_test and of the run *)

HasLog(level) == \E i \in 1..Len(last.logs) : last.logs[i].level = level

Sends(reqs, method, resourceType) ==
  \E i \in 1..Len(reqs) : ReqKind(reqs[i]) = << method, resourceType >>

\* the steps at which process_test ends after it went on to the execution result
AdvancedSteps == {"linked", "result_failed", "result_raise", "result_exit"}

\* the TCER outcomes after which a test is to go on: a success, or status 303
\* or 200 together with an ID that is neither null nor empty
AdvanceExpected(out) ==
  \/ out.success
  \/ /\ out.status_code \in {PyInt("303"), PyInt("200")}
     /\ out.id # None
     /\ out.id # << >>

\* C1: after the TCER creation call has returned, process_test goes on to the
\* creation of the execution result if and only if the outcome is a success,
\* or has status 303 or 200 with a non-null, non-empty ID; otherwise no
\* executionresult POST is issued.
C1_AdvanceIffSuccessOrExistingID ==
  (last.op = "process_test" /\ last.tcer # NoOutcome) =>
     /\ (last.step \in AdvancedSteps) <=> AdvanceExpected(last.tcer)
     /\ (last.step \notin AdvancedSteps) =>
          ~ Sends(last.reqs, "POST", "executionresult")

\* an outcome that says the resource exists already: 303 or 200, with an ID
ExistsAlready(out) ==
  /\ out.status_code \in {PyInt("303"), PyInt("200")}
  /\ out.id \notin {None, << >>, Absent}

FailureSteps == {"testcase_failed", "tcer_failed", "result_failed",
                 "create_build_failed", "create_configuration_failed"}

\* C2: whenever a creation call of process_test or of config (test case, TCER,
\* execution result, build record, configuration) comes back with 303 or with
\* 200 and an ID, the step goes on: it does not end as a failure, no error is
\* logged and nothing is raised.
C2_ExistingResourceIsSuccess ==
  (last.op \in {"process_test", "config"} /\ ExistsAlready(last.out)) =>
     /\ last.step \notin FailureSteps
     /\ last.ctl = "return"
     /\ ~ HasLog("error")
     /\ ~ HasLog("fatal")

\* the test met by process_test is one of the recoverable per-test failures
RecoverableFailure ==
  /\ last.op = "process_test"
  /\ ~ args.dryrun
  /\ \/ last.step \in {"no_tcid", "invalid_status", "update_failed", "tcer_failed",
                       "result_failed"}
     \/ last.test.status \notin DOMAIN DRESULT_MAPPING
     \/ get_from_tags(last.test.tags, "tcid-") = << >> /\ ~ args.createmissing

\* C3: a recoverable per-test failure logs an error and abandons the current
\* test only: process_test returns, the run is not terminated and goes on
\* with the tests left, in both variants.
C3_RecoverableFailureKeepsRunning ==
  RecoverableFailure =>
     /\ last.ctl = "return"
     /\ HasLog("error")
     /\ pc = "tests"
     /\ exitCode = None

\* C6: the accumulators lTestcaseIDs, lTCERIDs and lTCResultIDs never hold
\* an entry twice.
C6_AccumulatorsUnique ==
  /\ NoDuplicates(lTestcaseIDs)
  /\ NoDuplicates(lTCERIDs)
  /\ NoDuplicates(lTCResultIDs)

\* two tests were linked, with different results, for one test case ID
C6_SameTestcaseTwice ==
  /\ last.op = "process_test" /\ last.step = "linked"
  /\ Len(lTCResultIDs) = 2
  /\ Len(lTestcaseIDs) = 1

\* the requests of login, project verification and read-only validation
ReadOnlyKinds == { << "POST", "j_security_check" >>, << "GET", "project-areas" >>,
                   << "GET", "testplan" >>, << "GET", "team-areas" >> }

\* C7: under dry-run the run sends nothing but the login, the project
\* verification and the read-only validation GETs (no creation POST, no
\* PUT), and the three accumulators stay empty.
C7_DryRunCreatesNothing ==
  args.dryrun =>
     /\ sent \subseteq ReadOnlyKinds
     /\ lTestcaseIDs = << >> /\ lTCERIDs = << >> /\ lTCResultIDs = << >>

\* a dry run, logged in and configured with create-missing, has processed its
\* last test, one without a tcid tag
C7_DryRunProcessedTest ==
  /\ args.dryrun /\ args.createmissing
  /\ csrf = Token
  /\ last.op = "process_test" /\ nLeft = 0
  /\ get_from_tags(last.test.tags, "tcid-") = << >>
  /\ last.test.status \in DOMAIN DRESULT_MAPPING

\* the login was attempted and left no session token
LoginFailed == << "POST", "j_security_check" >> \in sent /\ csrf = << >>

\* C8: after a failed login the run is over: nothing is requested beyond the
\* login and the project verification, and the run reaches neither the
\* processing of tests nor the link step.
C8_FailedLoginIsFatal ==
  LoginFailed =>
     /\ sent \subseteq { << "POST", "j_security_check" >>, << "GET", "project-areas" >> }
     /\ pc \notin {"tests", "disconnect", "done"}

\* the scenario test: one tcid tag, PASS, five seconds
ScenarioTest ==
  Test(<< << "tcid-", "100" >> >>, "PASS", << >>,
       Timestamp(1, 10, 0, 0, 0), Timestamp(1, 10, 0, 5, 0))

\* the steps at which process_test ends because a creation call was not
\* answered with a created resource
RefusedSteps == {"tcer_failed", "tcer_raise", "tcer_exit",
                 "result_failed", "result_raise", "result_exit"}

\* every creation call process_test made was answered 201 with the new ID
AllCreated ==
  /\ last.step \notin RefusedSteps
  /\ last.tcer # NoOutcome => last.tcer.success

Occurrences(l, x) == Cardinality({i \in 1..Len(l) : l[i] = x})

\* C12: for the test with one tcid tag and status PASS, in a run that is
\* logged in, without dry-run and update, where the server answers 201 to the
\* creation calls, process_test POSTs one TCER and then one execution result
\* whose state is the prefix followed by 'passed' and whose run time is 5;
\* afterwards lTestcaseIDs holds the ID once.  Both variants.
C12_PassScenarioCreatesOneResult ==
  (/\ last.op = "process_test" /\ last.test = ScenarioTest
   /\ ~ args.dryrun /\ ~ args.updatetestcase /\ csrf = Token
   /\ AllCreated) =>
     /\ last.step = "linked"
     /\ last.reqs = << Req("POST", "executionworkitem", None),
                       Req("POST", "executionresult", None) >>
     /\ Len(last.tpls) = 2
     /\ last.tpls[2].state = prefixState \o << "p", "a", "s", "s", "e", "d" >>
     /\ last.tpls[2].totalRunTime = "5"
     /\ Occurrences(lTestcaseIDs, << "100" >>) = 1

\* C13: in RobotLog2RQM, without dry-run, process_test on a test without a
\* tcid tag while create-missing is off logs an error, sends no request,
\* leaves lTestcaseIDs, lTCERIDs and lTCResultIDs as they were and returns:
\* the run stays in the processing of tests, with one test less to go.
C13_NoTcidAbandonsTestOnly ==
  [][ (/\ last'.op = "process_test"
       /\ args.variant = "RobotLog2RQM" /\ ~ args.dryrun /\ ~ args.createmissing
       /\ get_from_tags(last'.test.tags, "tcid-") = << >>) =>
        /\ \E i \in 1..Len(last'.logs) : last'.logs[i].level = "error"
        /\ last'.reqs = << >>
        /\ sent' = sent
        /\ UNCHANGED << lTestcaseIDs, lTCERIDs, lTCResultIDs >>
        /\ last'.ctl = "return"
        /\ pc' = "tests" /\ exitCode' = None
        /\ nLeft' = nLeft - 1 ]_vars

\* a test without tcid tag was abandoned and a test is left to process
C13_NoTcidSkipped ==
  /\ args.variant = "RobotLog2RQM" /\ ~ args.createmissing
  /\ last.op = "process_test" /\ last.step = "no_tcid"
  /\ last.test.status = "PASS"
  /\ pc = "tests" /\ nLeft > 0

\* the steps at which process_test ends before it looks at the tcid tags
EarlySteps == {"dryrun", "attribute_error", "invalid_status"}

\* C14: when process_test resolves the test case ID of a test with more than
\* one tcid tag, it logs a warning and the ID of the first tcid tag is the one
\* of every later step: the GET and PUT of the update, the test case links
\* of the TCER and execution result documents, and the entry of lTestcaseIDs.
C14_FirstTcidTagWins ==
  LET ids   == get_from_tags(last.test.tags, "tcid-")
      first == ids[1]
  IN  (last.op = "process_test" /\ Len(ids) > 1 /\ last.step \notin EarlySteps) =>
        /\ HasLog("warning")
        /\ last.tcid = first
        /\ \A i \in 1..Len(last.reqs) :
             last.reqs[i].resourceType = "testcase" => last.reqs[i].id = first
        /\ \A i \in 1..Len(last.tpls) :
             last.tpls[i].testcase = integrationURL(projectID, "testcase", first, FALSE)
        /\ last.step = "linked" =>
             /\ InList(first, lTestcaseIDs)
             /\ \A j \in 2..Len(ids) : ids[j] # first => ~ InList(ids[j], lTestcaseIDs)

\* a test tagged TCID-100 and tcid-200 was updated and linked
C14_TwoTagsLinked ==
  /\ last.op = "process_test" /\ last.step = "linked"
  /\ get_from_tags(last.test.tags, "tcid-") = << << "100" >>, << "200" >> >>
  /\ Sends(last.reqs, "PUT", "testcase")
  /\ lTestcaseIDs = << << "100" >> >>

\* the state the vocabulary gives a status: Passed for PASS, Failed for FAIL,
\* Inconclusive for UNKNOWN and, as C15 is stated, for every other status
MappedState(status) ==
  prefixState \o (CASE status = "PASS" -> << "p", "a", "s", "s", "e", "d" >>
                    [] status = "FAIL" -> << "f", "a", "i", "l", "e", "d" >>
                    [] OTHER -> << "i", "n", "c", "o", "n", "c", "l", "u", "s", "i", "v", "e" >>)

\* the execution result documents of the last step carry that state
ResultsCarry(state) ==
  \A i \in 1..Len(last.tpls) :
    last.tpls[i].resourceType = "executionresult" => last.tpls[i].state = state

\* process_test got as far as the mapping of the status
StatusMapped ==
  last.op = "process_test" /\ last.step \notin {"dryrun", "attribute_error"}

\* C15 as stated: every status is mapped (PASS to Passed, FAIL to Failed,
\* every other status to Inconclusive): no test is turned down for its
\* status, and the result it yields carries the mapped state.
C15_EveryStatusMapped ==
  StatusMapped =>
    /\ last.step # "invalid_status"
    /\ ResultsCarry(MappedState(last.test.status))

\* C15, amended: PASS maps to Passed, FAIL to Failed and UNKNOWN to
\* Inconclusive; a test with any other status is turned down: an error is
\* logged, no request is sent, no document is built and process_test returns.
C15_ThreeStatusesMapped ==
  StatusMapped =>
    IF last.test.status \in {"PASS", "FAIL", "UNKNOWN"}
    THEN /\ last.step # "invalid_status"
         /\ ResultsCarry(MappedState(last.test.status))
    ELSE /\ last.step = "invalid_status"
         /\ HasLog("error")
         /\ last.ctl = "return"
         /\ last.reqs = << >> /\ last.tpls = << >>

\* a test with status SKIP was turned down after a FAIL test got its result
C15_SkipTurnedDown ==
  /\ last.op = "process_test" /\ last.test.status = "SKIP"
  /\ last.step = "invalid_status"
  /\ Len(lTCResultIDs) = 1

CountReqs(reqs, method) == Cardinality({i \in 1..Len(reqs) : reqs[i].method = method})

\* C16: the link step is taken once, when no test is left to process, and is
\* one batch: at most one GET and one PUT of the test plan, no other
\* request; the body PUT is the fetched plan followed by one testcase element
\* per ID of lTestcaseIDs, in the order of the list; with an empty list
\* nothing is sent.  After the link step the run never comes back to it.
C16_LinkIsOneBatch ==
  [][ /\ (last'.op = "link") =>
           /\ pc = "tests" /\ nLeft = 0
           /\ pc' \in {"disconnect", "exited"}
           /\ \A i \in 1..Len(last'.reqs) : last'.reqs[i].resourceType = "testplan"
           /\ CountReqs(last'.reqs, "GET") <= 1
           /\ CountReqs(last'.reqs, "PUT") <= 1
           /\ Len(last'.reqs) = CountReqs(last'.reqs, "GET") + CountReqs(last'.reqs, "PUT")
           /\ lTestcaseIDs = << >> => last'.reqs = << >>
           /\ CountReqs(last'.reqs, "PUT") = 1 =>
                /\ Len(last'.body) = Len(last'.plan) + Len(lTestcaseIDs)
                /\ SubSeq(last'.body, 1, Len(last'.plan)) = last'.plan
                /\ \A i \in 1..Len(lTestcaseIDs) :
                     last'.body[Len(last'.plan) + i] =
                       integrationURL(projectID, "testcase", lTestcaseIDs[i], FALSE)
           /\ UNCHANGED lTestcaseIDs
      /\ (pc \in {"disconnect", "done", "exited"}) => pc' \notin {"tests", "config"} ]_vars

\* two test cases were linked to a plan that held a test case already
C16_TwoLinkedInOnePut ==
  /\ last.op = "link" /\ last.step = "linked"
  /\ Len(lTestcaseIDs) = 2
  /\ Len(last.plan) = 1
  /\ last.reqs = << Req("GET", "testplan", TestPlanID), Req("PUT", "testplan", TestPlanID) >>

\* C17: after config has returned, the client holds both policy flags with
\* the values given on the command line (create-missing and update), in both
\* variants.
C17_BothFlagsHeld ==
  (last.op = "config" /\ last.ctl = "return") =>
     /\ conf.createmissing = PyBool(args.createmissing)
     /\ conf.updatetestcase = PyBool(args.updatetestcase)

\* the steps that end in one of the fatal errors: a result file or an answer
\* of the server that does not parse, a missing input path, no result file
ParseFailureSteps ==
  {"unparsable", "project_areas_unparsable", "builds_unparsable",
   "configurations_unparsable", "team_areas_unparsable", "testplan_unparsable",
   "update_exit", "testcase_exit", "tcer_exit", "result_exit", "build_exit",
   "configuration_exit"}

FatalSteps == ParseFailureSteps \cup {"path_missing", "no_result_file"}

\* the import phase failed and the run function caught it
ImportFailed == last.op \in {"config", "process_test", "link"} /\ last.ctl = "raise"

\* C27: the process ends with exit code 1 when, and only when, it met a fatal
\* error (a failed parse, a missing input path, no result file, a failure of
\* the import phase caught by the run function), and with exit code 0 when,
\* and only when, it ran to its end.
C27_ExitCodeOneIffFatal ==
  /\ exitCode \in {None, << "0" >>, << "1" >>}
  /\ (last.step \in FatalSteps \/ ImportFailed) <=> exitCode = << "1" >>
  /\ HasLog("fatal") => exitCode = << "1" >>
  /\ pc = "exited" <=> exitCode = << "1" >>
  /\ pc = "done" <=> exitCode = << "0" >>

\* a run whose import phase failed in process_test, was caught and logged as
\* fatal, and ended with exit code 1
C27_ImportFailureExitsOne ==
  /\ last.op = "process_test" /\ last.ctl = "raise"
  /\ HasLog("fatal")
  /\ pc = "exited" /\ exitCode = << "1" >>

\* C28: when the process has ended and the session had been created, the
\* session was closed before, also when the run ended through a fatal error.
C28_SessionClosedAtEnd ==
  (exitCode # None /\ session # "none") => session = "closed"

\* C30: once the execution result of a test was created, the start time of
\* the test is in lStartTimes and its end time in lEndTimes.
C30_TimesOfImportedTestsKept ==
  (last.op = "process_test" /\ last.step = "linked") =>
    /\ InList(last.test.starttime, lStartTimes)
    /\ InList(last.test.endtime, lEndTimes)

\* the positions of the requests of one kind among the requests of a call
PositionsOf(reqs, method, resourceType) ==
  {i \in 1..Len(reqs) : ReqKind(reqs[i]) = << method, resourceType >>}

\* every request of the first kind comes before every request of the second
Before(reqs, m1, t1, m2, t2) ==
  \A i \in PositionsOf(reqs, m1, t1), j \in PositionsOf(reqs, m2, t2) : i < j

\* the creation POSTs of one process_test call are at most one per resource
\* type and in the order test case, TCER, execution result; no request is
\* sent twice
StepsInOrder(reqs) ==
  /\ \A t \in {"testcase", "executionworkitem", "executionresult"} :
        Cardinality(PositionsOf(reqs, "POST", t)) <= 1
  /\ Before(reqs, "POST", "testcase", "POST", "executionworkitem")
  /\ Before(reqs, "POST", "executionworkitem", "POST", "executionresult")
  /\ Before(reqs, "POST", "testcase", "POST", "executionresult")
  /\ NoDuplicates(reqs)

\* C31: for every test and every answer of the server, process_test takes
\* the per-test steps in order, none twice: at most one testcase POST, one
\* executionworkitem POST and one executionresult POST, in that order, and no
\* request is sent again after a failure; the executionresult POST is sent
\* only after the executionworkitem POST, whose outcome was a success or came
\* with 303 or 200; and lTestcaseIDs grows only in a process_test call whose
\* executionresult POST succeeded, by the ID of that test.
C31_StepsInOrderNoRetry ==
  /\ [](last.op = "process_test" =>
          /\ StepsInOrder(last.reqs)
          /\ Sends(last.reqs, "POST", "executionresult") =>
                /\ Sends(last.reqs, "POST", "executionworkitem")
                /\ last.tcer # NoOutcome
                /\ \/ last.tcer.success
                   \/ last.tcer.status_code \in {PyInt("303"), PyInt("200")})
  /\ [][lTestcaseIDs' # lTestcaseIDs =>
          /\ last'.op = "process_test"
          /\ Sends(last'.reqs, "POST", "executionresult")
          /\ last'.out.success
          /\ lTestcaseIDs' = Append(lTestcaseIDs, last'.tcid)]_vars

\* a test without a tcid tag went through the three creations and was linked
C31_ThreeCreationsInOrder ==
  /\ last.op = "process_test" /\ last.step = "linked"
  /\ last.reqs = << Req("POST", "testcase", None),
                    Req("POST", "executionworkitem", None),
                    Req("POST", "executionresult", None) >>
  /\ InList(last.tcid, lTestcaseIDs)

\* process_test came to the test case update: the update policy is set and
\* the test has a test case ID
UpdateReached(l) ==
  /\ l.op = "process_test" /\ l.step \notin EarlySteps
  /\ Truthy(conf.updatetestcase)
  /\ get_from_tags(l.test.tags, "tcid-") # << >>

\* the fetch of the existing test case came back with 200 and a body
FetchSucceeded(l) ==
  l.resTC.status_code = PyInt("200") /\ l.resTC.text.kind # "empty"

\* C32: with the update policy set and a test case ID present, process_test
\* first GETs the existing test case.  When the answer is not 200 with a
\* non-empty body, the test is given up with a logged error: process_test
\* returns, nothing but the GET was sent (no PUT, no executionworkitem POST,
\* no executionresult POST) and no accumulator changes.  Otherwise exactly one
\* PUT of the test case follows the GET, before the executionworkitem POST.
C32_UpdateFetchesThenPutsOnce ==
  [][UpdateReached(last') =>
       /\ last'.reqs # << >>
       /\ last'.reqs[1] = Req("GET", "testcase", last'.tcid)
       /\ IF ~ FetchSucceeded(last')
          THEN /\ last'.ctl = "return"
               /\ \E i \in 1..Len(last'.logs) : last'.logs[i].level = "error"
               /\ Len(last'.reqs) = 1
               /\ UNCHANGED << lTestcaseIDs, lTCERIDs, lTCResultIDs >>
          ELSE /\ Cardinality(PositionsOf(last'.reqs, "PUT", "testcase")) = 1
               /\ last'.reqs[2] = Req("PUT", "testcase", last'.tcid)
               /\ Before(last'.reqs, "PUT", "testcase", "POST", "executionworkitem")]_vars

\* C38: when the update policy is set and the fetch of the existing test
\* case succeeded, the answer to the update PUT is not consulted: whatever its
\* status, process_test logs the update as successful, logs no error for it,
\* and goes on to the creation of the TCER (the TCER document is built and
\* handed to createResource).
C38_PutOutcomeNotConsulted ==
  (last.op = "process_test" /\ last.resPut # NoResponse) =>
     /\ Sends(last.reqs, "PUT", "testcase")
     /\ InList(Log("info", "Update testcase successfully"), last.logs)
     /\ ~ InList(Log("error", "Update testcase failed"), last.logs)
     /\ last.step \notin {"update_failed", "update_raise", "update_exit"}
     /\ last.tpls # << >>
     /\ last.tpls[1].resourceType = "executionworkitem"

\* the update PUT was refused with 500 and the test was imported all the same
C38_RefusedPutStillLinked ==
  /\ last.op = "process_test" /\ last.step = "linked"
  /\ last.resPut.status_code = PyInt("500")
  /\ Sends(last.reqs, "POST", "executionworkitem")
  /\ InList(last.tcid, lTestcaseIDs)

\* C34: after any sequence of process_test calls lTCERIDs and lTCResultIDs
\* have the same length, and the result at a position of lTCResultIDs was
\* created under the TCER at the same position of lTCERIDs: a call that adds a
\* result adds it at the position of the TCER it was created under.
C34_ResultsPairedWithTCERs ==
  /\ [](Len(lTCERIDs) = Len(lTCResultIDs))
  /\ [][lTCResultIDs' # lTCResultIDs =>
          /\ Len(lTCERIDs') = Len(lTCResultIDs')
          /\ lTCERIDs'[Len(lTCResultIDs')] = last'.tcer.id]_vars

\* C36: lTestcaseIDs and lTCResultIDs change only in a process_test call
\* whose executionresult POST succeeded: lTestcaseIDs by the test case ID the
\* call worked with, lTCResultIDs by the ID the creation returned; after such
\* a call both IDs are in their list; a call that gave the test up at any
\* step leaves both lists as they were.
C36_AccumulatorsHoldImportedOnly ==
  [][LET imported == /\ last'.op = "process_test" /\ last'.step = "linked"
                     /\ Sends(last'.reqs, "POST", "executionresult")
                     /\ last'.out.success
     IN  /\ lTestcaseIDs' # lTestcaseIDs =>
               imported /\ lTestcaseIDs' = Append(lTestcaseIDs, last'.tcid)
         /\ lTCResultIDs' # lTCResultIDs =>
               imported /\ lTCResultIDs' = Append(lTCResultIDs, last'.out.id)
         /\ imported =>
               /\ InList(last'.tcid, lTestcaseIDs')
               /\ InList(last'.out.id, lTCResultIDs')
         /\ (last'.op = "process_test" /\ ~ imported) =>
               UNCHANGED << lTestcaseIDs, lTCResultIDs >>]_vars

\* a test was given up at the execution result after another was imported
C36_GivenUpAfterImported ==
  /\ last.op = "process_test" /\ last.step = "result_failed"
  /\ Len(lTestcaseIDs) = 1 /\ Len(lTCResultIDs) = 1

-----------------------------------------------------------------------------
(* Properties of the client's creation API *)

CachedOps == {"createBuildRecord", "createConfiguration"}

\* calls i and i+1 are the same operation on the same name, both without force
SameNameTwice(i) ==
  /\ calls[i].op = calls[i + 1].op
  /\ calls[i].name = calls[i + 1].name
  /\ ~ calls[i].force /\ ~ calls[i + 1].force

CacheHitMade ==
  /\ last.op \in CachedOps
  /\ last.reqs = << >>
  /\ last.out.message \in {"Build record is already existing.",
                           "Test environment is already existing."}

\* what createResource returns for a live 303 on the resource with that ID
Live303(resourceType, id) ==
  createResource(Token, ProjectUUID, resourceType,
                 Response(PyInt("303"), EmptyBody, ServerURN(resourceType, id)),
                 NoResponse).val

\* C5: the outcome of a cache hit has the shape of the outcome of a live 303
\* on the same resource: the same success flag, the same ID, the same
\* status_code, so that config's check and process_test's check each accept
\* both or neither.
C5_CacheHitLikeLive303 ==
  CacheHitMade =>
    LET live == Live303(IF last.op = "createBuildRecord" THEN "buildrecord"
                        ELSE "configuration", last.out.id)
    IN  /\ last.out.success = live.success
        /\ last.out.id = live.id
        /\ last.out.status_code = live.status_code
        /\ ConfigAccepts(last.out) <=> ConfigAccepts(live)
        /\ TCERExists(last.out) <=> TCERExists(live)

\* C9: a createResource call made while the anti-forgery header is not set
\* sends no request and returns success false, a null ID and a non-empty
\* message; caches and accumulators are left as they were.
C9_FailFastWithoutHeader ==
  [][ (csrf = << >> /\ last'.op = "createResource") =>
        /\ last'.reqs = << >>
        /\ sent' = sent
        /\ last'.ctl = "return"
        /\ ~ last'.out.success
        /\ last'.out.id = None
        /\ last'.out.message # ""
        /\ UNCHANGED << dBuildVersion, dConfiguation, dTeamAreas,
                        lTestcaseIDs, lTCERIDs, lTCResultIDs >> ]_vars

\* createResource was called before the header was set
C9_CalledWithoutHeader ==
  /\ last.op = "createResource"
  /\ csrf = << >>
  /\ last.out.message = MsgJSessionMissing

\* C10: on 303 createResource returns the tail segment of the location of the
\* existing resource, in its URN form and in its external-ID form; on 201
\* with an empty body and a Content-Location it returns what
\* webIDfromGeneratedID resolves the header value to.
C10_IDFromLocation ==
  (last.op = "createResource" /\ csrf # << >> /\ last.ctl = "return") =>
    LET t   == last.arg[1]
        loc == last.res.ContentLocation
    IN  /\ (/\ last.res.status_code = PyInt("303")
            /\ loc \in {ServerURN(t, i) : i \in IdPool} \cup {ServerExt(t, SlugID)})
             => last.out.id = TailSegment(loc)
        /\ (/\ last.res.status_code = PyInt("201")
            /\ last.res.text.kind = "empty"
            /\ loc \notin {Absent, << >>}
            /\ last.out.success)
             => last.out.id = webIDfromGeneratedID(t, loc, last.resGet).val

\* the answer to the POST is none of: 201, 303, 200 with a non-empty body
OtherStatus(res) ==
  /\ res.status_code \notin {PyInt("201"), PyInt("303")}
  /\ ~ (res.status_code = PyInt("200") /\ res.text.kind # "empty")

\* C11: for a POST answered with a status that is neither 201, nor 303, nor
\* 200 with a non-empty body, createResource returns success false, a null
\* ID, the HTTP status as status_code and the HTTP reason phrase as message.
C11_OtherStatusIsFailure ==
  (last.op = "createResource" /\ csrf # << >> /\ OtherStatus(last.res)) =>
    /\ last.ctl = "return"
    /\ last.out = [success |-> FALSE, id |-> None,
                   status_code |-> last.res.status_code,
                   message |-> last.res.reason]

\* createResource met a refusal (500), and a 200 without a body
C11_RefusedPost ==
  /\ last.op = "createResource" /\ csrf # << >>
  /\ Sends(last.reqs, "POST", last.arg[1])
  /\ last.res.status_code = PyInt("500")
  /\ last.out.message = "Internal Server Error"

\* C26: createResource hands every answer of the server back as an outcome
\* and raises nothing, whatever the status and the headers; only an answer
\* that does not parse and a missing session are exceptional.
C26_EveryAnswerIsAnOutcome ==
  (/\ last.op = "createResource"
   /\ csrf # << >>
   /\ last.res.text.kind # "garbage"
   /\ last.resGet.text.kind # "garbage") => last.ctl = "return"

\* C35: whenever createResource (also when called by createBuildRecord or
\* createConfiguration) returns an outcome with success true, the ID of the
\* outcome is neither null nor empty: for 201 with a body, and for 201 with an
\* empty body and any value of the Content-Location header that is present.
C35_SuccessCarriesID ==
  (/\ last.op \in {"createResource", "createBuildRecord", "createConfiguration"}
   /\ last.ctl = "return"
   /\ last.out.success) =>
     last.out.id \notin {None, << >>, Absent}

-----------------------------------------------------------------------------
(* Properties of integrationURL and of createExecutionResultTemplate *)

CollectionURL(resourceType) == << host, ServicePath, projectID, "/", resourceType >>

URNForm(resourceType, id) ==
  CollectionURL(resourceType) \o << "/urn:com.ibm.rqm:", resourceType, ":" >> \o id

LiteralForm(resourceType, id) == CollectionURL(resourceType) \o << "/" >> \o id

\* the ID is made of digits only
PurelyNumeric(id) == id # << >> /\ \A i \in 1..Len(id) : id[i] \in DigitTokens

\* C18: integrationURL returns the URN form for an ID of digits only, the
\* literal-append form for an ID that is not of digits only when the internal
\* form is not forced, and the bare collection URL for None.
C18_NumericIDGivesURN ==
  (last.op = "integrationURL") =>
    LET a == last.arg
    IN  /\ (a.id # None /\ PurelyNumeric(a.id))
             => last.ret = URNForm(a.resourceType, a.id)
        /\ (a.id # None /\ ~ PurelyNumeric(a.id) /\ ~ a.forceinternalID)
             => last.ret = LiteralForm(a.resourceType, a.id)
        /\ (a.id = None) => last.ret = CollectionURL(a.resourceType)

\* integrationURL was called with a numeric ID, internal form not forced
C18_NumericIDCalled ==
  /\ last.op = "integrationURL"
  /\ last.arg.id = << "7", "100" >> /\ ~ last.arg.forceinternalID
  /\ last.ret = URNForm(last.arg.resourceType, << "7", "100" >>)

\* C19 as stated: an ID of digits only, internal form not forced, is appended
\* literally; every other ID that is present is appended as a URN.
C19_DigitsAppendedLiterally ==
  (last.op = "integrationURL" /\ last.arg.id # None) =>
    LET a == last.arg
    IN  IF PurelyNumeric(a.id) /\ ~ a.forceinternalID
        THEN last.ret = LiteralForm(a.resourceType, a.id)
        ELSE last.ret = URNForm(a.resourceType, a.id)

\* C19, amended: an ID that is present and not of digits only, internal form
\* not forced, is an external ID and appended literally; every other ID that
\* is present (digits only, or internal form forced) is appended as a URN.
C19_NonDigitsAppendedLiterally ==
  (last.op = "integrationURL" /\ last.arg.id # None) =>
    LET a == last.arg
    IN  IF (~ PurelyNumeric(a.id)) /\ ~ a.forceinternalID
        THEN last.ret = LiteralForm(a.resourceType, a.id)
        ELSE last.ret = URNForm(a.resourceType, a.id)

\* integrationURL was called with an ID that is not numeric, internal form forced
C19_ForcedInternalCalled ==
  /\ last.op = "integrationURL"
  /\ last.arg.id = SlugID /\ last.arg.forceinternalID
  /\ last.ret = URNForm(last.arg.resourceType, SlugID)

\* a and b spell the same word up to the case of their letters
SameLetters(a, b) ==
  /\ Len(a) = Len(b)
  /\ \A i \in 1..Len(a) :
       \/ a[i] = b[i]
       \/ \E k \in 1..Len(UpperCase) :
            {a[i], b[i]} = {UpperCase[k], LowerCase[k]}

\* C20: for each of the twelve result states, in any letter case,
\* createExecutionResultTemplate sets the state node to the prefix followed
\* by the state in lower case; for every other string it sets it to the
\* prefix followed by 'inconclusive'.
C20_StateNodeFromVocabulary ==
  (last.op = "createExecutionResultTemplate") =>
    LET given == last.arg.resultState
        state == last.tpls[1].state
    IN  IF \E k \in 1..Len(RESULT_STATES) : SameLetters(given, RESULT_STATES[k])
        THEN \E k \in 1..Len(RESULT_STATES) :
               /\ SameLetters(given, RESULT_STATES[k])
               /\ state = prefixState \o RESULT_STATES[k]
        ELSE state = prefixState \o << "i", "n", "c", "o", "n", "c", "l", "u", "s", "i", "v", "e" >>

\* the template was built for the state PERM_FAILED
C20_UpperCaseStateGiven ==
  /\ last.op = "createExecutionResultTemplate"
  /\ last.arg.resultState = << "P", "E", "R", "M", "_", "F", "A", "I", "L", "E", "D" >>
  /\ last.tpls[1].state = prefixState \o << "p", "e", "r", "m", "_", "f", "a", "i", "l", "e", "d" >>

-----------------------------------------------------------------------------
(* Properties of config and of the listings *)

\* positions of the requests of a config call that go to a resource type
RequestsTo(resourceType) ==
  {i \in 1..Len(last.reqs) : last.reqs[i].resourceType = resourceType}

Named(name) == name # None /\ name # << >>

\* an outcome that is a success or says that the resource exists already
SuccessOrExists(res) == res.success \/ res.status_code.repr = "303"

\* C21: config fetches the test plan first; when the answer is not 200 it
\* raises and sends nothing else; build records (configurations) are listed
\* or created only for a build (configuration) that is named, after the test
\* plan GET; the stored build (configuration) ID is the ID of an outcome
\* that is a success or an already-exists, else it stays unset.
C21_TestPlanValidatedFirst ==
  last.op = "config" =>
    /\ last.reqs # << >>
    /\ last.reqs[1] = Req("GET", "testplan", TestPlanID)
    /\ last.res.status_code # PyInt("200") =>
         (last.ctl = "raise" /\ Len(last.reqs) = 1 /\ conf.build = None
            /\ conf.configuration = None)
    /\ RequestsTo("buildrecord") # {} =>
         (Named(last.arg.build_name) /\ 1 \notin RequestsTo("buildrecord"))
    /\ RequestsTo("configuration") # {} =>
         (Named(last.arg.config_name) /\ 1 \notin RequestsTo("configuration"))
    /\ conf.build # None =>
         (SuccessOrExists(last.res_build) /\ conf.build = last.res_build.id)
    /\ conf.configuration # None =>
         (SuccessOrExists(last.res_conf) /\ conf.configuration = last.res_conf.id)

\* a config call that was given a build name only, found the test plan and
\* created the build record
C21_BuildCreatedAfterPlan ==
  /\ last.op = "config" /\ last.step = "configured"
  /\ last.arg = [build_name |-> << "v1.0" >>, config_name |-> None]
  /\ Kinds(last.reqs) = { << "GET", "testplan" >>, << "GET", "buildrecord" >>,
                          << "POST", "buildrecord" >>, << "GET", "team-areas" >> }
  /\ last.res_build.success
  /\ conf.build = << "1" >> /\ conf.configuration = None

ListingOps == {"getAllBuildRecords", "getAllConfigurations"}

\* C22: a listing that fails on some page gives an envelope with success
\* false and without any entry, and leaves the caches as they were.
C22_FailedListingIsNeverPartial ==
  [][(last'.op \in ListingOps /\ last'.ctl = "raise") =>
       /\ ~ last'.ret.success
       /\ last'.ret.data = << >>
       /\ dBuildVersion' = dBuildVersion
       /\ dConfiguation' = dConfiguation]_vars

\* every page of the listing parses
AllPagesParse(listing) == \A i \in 1..Len(listing) : listing[i].kind = "xml"

\* the pages of a listing that list the ID
PagesWith(listing, id) == {i \in 1..Len(listing) : DictHas(listing[i].entries, id)}

\* the IDs listed on any page
ListedIDs(listing) ==
  UNION { {listing[i].entries[j][1] : j \in 1..Len(listing[i].entries)} :
          i \in 1..Len(listing) }

\* C33: for every chain of pages that all parse, getAllByResource follows
\* the next-page links to the end: it returns after one GET per page, in the
\* order of the chain, with success true and data that is the merge of the
\* (ID, name) pairs of all pages: the IDs are those listed on some page, each
\* once, and the name of an ID is the one of the last page that lists it.
C33_AllPagesFetchedOnceAndMerged ==
  (last.op \in ListingOps /\ AllPagesParse(last.arg)) =>
     LET listing == last.arg
         data    == last.ret.data
         t       == last.reqs[1].resourceType
     IN  /\ last.ctl = "return"
         /\ last.ret.success
         /\ last.reqs = [i \in 1..Len(listing) |-> Req("GET", t, PageRef(i))]
         /\ NoDuplicates(DictKeys(data))
         /\ {data[j][1] : j \in 1..Len(data)} = ListedIDs(listing)
         /\ \A id \in ListedIDs(listing) :
              LET p == CHOOSE i \in PagesWith(listing, id) :
                         \A k \in PagesWith(listing, id) : k <= i
              IN  DictGet(data, id) = DictGet(listing[p].entries, id)

\* a listing of three pages was fetched to its end
C33_ThreePagesFetched ==
  /\ last.op \in ListingOps /\ AllPagesParse(last.arg)
  /\ Len(last.arg) = 3
  /\ Len(last.reqs) = 3
  /\ Len(last.ret.data) = 3

-----------------------------------------------------------------------------
(* Properties of the create...Template functions *)

\* C23: createTestcaseTemplate changes the component, test type, ASIL,
\* requirement ID or robot file node of the document only when the node
\* exists and a non-empty value was given; else the node keeps its value, and
\* no error is raised.
C23_NodeSetOnlyWithNodeAndValue ==
  last.op = "createTestcaseTemplate" =>
    LET a == last.arg
        Kept(node, s) ==
          (a.oTree[node] = Absent \/ ~ Truthy(s)) => last.ret.val[node] = a.oTree[node]
    IN  /\ Kept("Component", a.sComponent)
        /\ Kept("TestType", a.sTestType)
        /\ Kept("ASIL", a.sASIL)
        /\ Kept("RequirementID", a.sFID)
        /\ Kept("RobotFile", a.sRobotFile)
        /\ a.sTeam = << >> => last.ret.ctl = "return"

TeamNodeAppended ==
  last.ret.val.teamarea = Append(last.arg.oTree.teamarea, TeamURL(last.arg.sTeam))

\* C24 as stated: an empty team-area name raises; a team-area node is
\* appended only for a name that is a key of dTeamAreas.
C24_EmptyTeamRaises ==
  last.op = "createTestcaseTemplate" =>
    /\ last.arg.sTeam = << >> => last.ret.ctl = "raise"
    /\ last.ret.val.teamarea # last.arg.oTree.teamarea =>
         (last.arg.sTeam \in dTeamAreas /\ TeamNodeAppended)

\* C24: an empty team-area name appends no node and raises nothing; a
\* non-empty name that is a key of dTeamAreas, letter for letter, appends one
\* node with its URL; any other non-empty name raises and appends nothing.
C24_TeamLookedUpExactly ==
  last.op = "createTestcaseTemplate" =>
    LET sTeam == last.arg.sTeam
        same  == last.ret.val.teamarea = last.arg.oTree.teamarea
    IN  /\ sTeam = << >> => (last.ret.ctl = "return" /\ same)
        /\ (sTeam # << >> /\ sTeam \in dTeamAreas) =>
             (last.ret.ctl = "return" /\ TeamNodeAppended)
        /\ (sTeam # << >> /\ sTeam \notin dTeamAreas) =>
             (last.ret.ctl = "raise" /\ same)

\* the name of a fetched team in another letter case was given and refused
C24_CasedTeamRefused ==
  /\ last.op = "createTestcaseTemplate"
  /\ dTeamAreas = {KnownTeam}
  /\ last.arg.sTeam = CasedTeam
  /\ last.ret.ctl = "raise"

TemplateOps == {"createTestcaseTemplate", "createTCERTemplate",
                "createExecutionResultTemplate"}

\* the owner node of the document handed to the last create...Template call,
\* and the owner node of the document it made
OwnerGiven ==
  IF last.op = "createTestcaseTemplate" THEN last.arg.oTree.owner ELSE last.arg.oOwner
OwnerMade ==
  IF last.op = "createTestcaseTemplate" THEN last.ret.val.owner ELSE last.tpls[1].owner

\* C25: in every template, a given owner ID becomes the owner; without one,
\* an empty owner node is set to the authenticated user, and an owner node
\* that names somebody is left as it is, text and resource attribute.
C25_OwnerThreeWay ==
  last.op \in TemplateOps =>
    LET sOwnerID == last.arg.sOwnerID
        empty    == OwnerGiven.text = None \/ OwnerGiven.text = << >>
    IN  /\ sOwnerID # << >> =>
             (OwnerMade.text = sOwnerID /\ OwnerMade.resource = userURL(sOwnerID))
        /\ (sOwnerID = << >> /\ empty) =>
             (OwnerMade.text = userID /\ OwnerMade.resource = userURL(userID))
        /\ (sOwnerID = << >> /\ ~ empty) => OwnerMade = OwnerGiven

\* a TCER template made without an owner ID from a document that names an owner
C25_ExistingOwnerKept ==
  /\ last.op = "createTCERTemplate"
  /\ last.arg.sOwnerID = << >>
  /\ last.arg.oOwner.text = << "someone" >>
  /\ last.tpls[1].owner = OwnerNode(<< "someone" >>, userURL(<< "someone" >>))

-----------------------------------------------------------------------------
(* Properties of the result tree *)

\* C29: after process_suite_metadata and process_suite have run over a tree,
\* every suite of the tree, its metadata included, is as it was before.
C29_TreeIsReadOnly ==
  last.op = "process_suite" => last.ret.suite = last.arg

\* the test nodes of a tree, depth-first: under each suite the tests of its
\* child suites, in child order, then its own
RECURSIVE TestNodes(_)
TestNodes(suite) ==
  LET RECURSIVE over(_)
      over(subsuites) ==
        IF subsuites = << >> THEN << >>
        ELSE TestNodes(Head(subsuites)) \o over(Tail(subsuites))
  IN  over(suite.suites) \o suite.tests

\* C37: process_suite hands every test node of the tree to process_test
\* exactly once, also the tests of a suite that has child suites; the calls
\* follow the depth-first order of the suites and the order of the tests
\* within a suite.
C37_EveryTestProcessedOnce ==
  last.op = "process_suite" =>
    LET nodes  == TestNodes(last.arg)
        passed == last.ret.tests
    IN  /\ \A i \in 1..Len(nodes) : Occurrences(passed, nodes[i]) = 1
        /\ Len(passed) = Len(nodes)
        /\ \A i, j \in 1..Len(passed) :
             i < j => ListIndex(nodes, passed[i]) < ListIndex(nodes, passed[j])

=============================================================================
